---------------------------- MODULE Spec2Model ----------------------------
(***************************************************************************)
(* Millhouse: the agent orchestration engine.                              *)
(*                                                                         *)
(*   - ConsoleHandler, the token budget tracker and signal collector       *)
(*     (internal/llm/output.go);                                           *)
(*   - ParseStream, the stream driver, and runClaude, one phase invocation *)
(*     (internal/llm/output.go, internal/builder/builder.go);              *)
(*   - runRun, the iteration loop over the PRD store                       *)
(*     (internal/cli/run.go, internal/prd/prd.go).                         *)
(*                                                                         *)
(* Three specifications share the variables:                               *)
(*   SpecHandler  a ConsoleHandler called directly, as the llm tests do;   *)
(*   SpecStream   one phase invocation: runClaude driving ParseStream;     *)
(*   SpecRun      the iteration loop of `mil run N`.                       *)
(***************************************************************************)
EXTENDS Integers, Sequences, FiniteSets, TLC

(***************************************************************************)
(* Bounds of the model.                                                    *)
(***************************************************************************)
\* Largest token count one usage block reports.
MaxTok == 1
\* Largest token ceiling a handler is built with.
MaxThreshold == 3
\* Number of direct handler calls in SpecHandler.
MaxCalls == 3
\* Number of lines the subprocess writes in SpecStream.
MaxLines == 3
\* Largest number of segments a text of SpecSignals is put together from.
MaxSegs == 3
\* Largest number of PRDs in the store in SpecRun.
MaxPRDs == 2
\* Largest N of `mil run N` in SpecRun.
MaxIterations == 3
\* Largest number of records in the document of SpecStore.
MaxRecs == 2
\* Largest number of signals one agent run leaves in SpecPhase.
MaxSignals == 2

VARIABLES
    h,          \* the ConsoleHandler of the current invocation
    ncalls,     \* SpecHandler: number of handler calls made so far
    lastCall,   \* the most recent handler call / stream line (history)
    reported,   \* history: what the usage snapshots reported so far
    pc,         \* SpecStream: where runClaude is
    emitted,    \* SpecStream: lines the subprocess has written to its stdout
    consumed,   \* SpecStream: lines ParseStream's scanner has read
    proc,       \* SpecStream: the subprocess
    ret,        \* SpecStream: what ParseStream / runClaude returned
    ctxCancelled, \* SpecStream: execCtx has been cancelled
    readerClosed, \* SpecStream: reader.Close() has run
    disk,       \* SpecRun: the PRDs of .milhouse/prd.json
    diskBad,    \* SpecRun: prd.json cannot be read or parsed
    prdFile,    \* SpecRun: runRun's prdFile, the last loaded store
    iterations, \* SpecRun: N
    iter,       \* SpecRun: i, the iteration counter
    rpc,        \* SpecRun: where runRun is
    start,      \* SpecRun history: the store the run started from
    phaseResult, \* SpecRun: what the last phase invocation returned
    phases,     \* SpecRun history: the phases invoked in this iteration
    iterIdle,   \* SpecRun history: no phase of this iteration was productive
    idleRun,    \* SpecRun history: consecutive idle iterations completed
    bailed,     \* SpecRun history: the builder's last budget bailout
    chunk,      \* SpecSignals: the text handed to checkSignals
    iterSignals, \* SpecIdle: the signal types handed to CaptureIterationState
    doc,        \* SpecStore: the JSON document in .milhouse/prd.json
    loadErr,    \* SpecStore: the last prd.Load returned an error
    firstLoad,  \* SpecStore history: the PRDs of the first prd.Load
    queried,    \* SpecStore: what the typed queries and FindByID returned
    sel,        \* SpecStore: what SelectNext returned
    prevDoc,    \* SpecStore history: the document before prd.Save
    report,     \* SpecPhase: the result a phase's Run puts together
    cfgFile,    \* SpecConfig: what .milhouse/config.yaml holds
    flags,      \* SpecConfig: the --*-model and --*-max-tokens flags
    cfg,        \* SpecConfig: runRun's cfg
    ceiling     \* SpecConfig: the ceiling handed to a phase's handler

handlerVars == <<h, ncalls, lastCall, reported>>
streamVars  == <<pc, emitted, consumed, proc, ret, ctxCancelled, readerClosed>>
runVars     == <<disk, diskBad, prdFile, iterations, iter, rpc, start,
                 phaseResult, phases, iterIdle, idleRun, bailed>>
idleVars    == <<iterSignals>>
signalVars  == <<chunk>>
storeVars   == <<doc, loadErr, firstLoad, queried, sel, prevDoc>>
resultVars  == <<report>>
configVars  == <<cfgFile, flags, cfg, ceiling>>
vars == <<h, ncalls, lastCall, reported,
          pc, emitted, consumed, proc, ret, ctxCancelled, readerClosed,
          disk, diskBad, prdFile, iterations, iter, rpc, start,
          phaseResult, phases, iterIdle, idleRun, bailed, chunk, iterSignals,
          doc, loadErr, firstLoad, queried, sel, prevDoc, report,
          cfgFile, flags, cfg, ceiling>>

(***************************************************************************)
(* Signal types, internal/llm/output.go:15-27.                             *)
(***************************************************************************)
SignalPRDComplete      == "PRD_COMPLETE"
SignalBailout          == "BAILOUT"
SignalBlocked          == "BLOCKED"
SignalAnalysisComplete == "ANALYSIS_COMPLETE"
SignalVerified         == "VERIFIED"
SignalRejected         == "REJECTED"
SignalLoopRisk         == "LOOP_RISK"
SignalPlanComplete     == "PLAN_COMPLETE"
SignalPlanSkipped      == "PLAN_SKIPPED"
SignalPlanUpdated      == "PLAN_UPDATED"

SignalTypes ==
    { SignalPRDComplete, SignalBailout, SignalBlocked, SignalAnalysisComplete,
      SignalVerified, SignalRejected, SignalLoopRisk,
      SignalPlanComplete, SignalPlanSkipped, SignalPlanUpdated }

\* type Signal struct { Type, Details, PRDID }
Signal(type, details, prdid) ==
    [Type |-> type, Details |-> details, PRDID |-> prdid]

\* type TokenStats struct { InputTokens, OutputTokens, TotalTokens }
TokenStats(in, out) ==
    [InputTokens |-> in, OutputTokens |-> out, TotalTokens |-> 0]

\* The BAILOUT signal the handler synthesizes when the ceiling is reached.
BudgetBailout == Signal(SignalBailout, "token limit exceeded", "")

(***************************************************************************)
(* ConsoleHandler.  cancelCalls counts the invocations of the cancellation *)
(* callback (the context.CancelFunc the phase controllers hand to both the *)
(* handler and ParseStream); hasOnTerminate is onTerminate != nil.         *)
(***************************************************************************)
NewConsoleHandlerWithTerminate(threshold, hasCallback) ==
    [ signals        |-> << >>,
      tokenStats     |-> [InputTokens |-> 0, OutputTokens |-> 0, TotalTokens |-> 0],
      tokenThreshold |-> threshold,
      output         |-> << >>,
      hasOnTerminate |-> hasCallback,
      shouldStop     |-> FALSE,
      toolCount      |-> 0,
      cancelCalls    |-> 0 ]

\* Mutant: the terminal kinds without the planner's (the list before the
\* planner signals were added).
isTerminalSignal_noPlanner(s) ==
    \/ s.Type = SignalPRDComplete
    \/ s.Type = SignalBailout
    \/ s.Type = SignalBlocked
    \/ s.Type = SignalAnalysisComplete

isTerminalSignal(s) ==
    \/ s.Type = SignalPRDComplete
    \/ s.Type = SignalBailout
    \/ s.Type = SignalBlocked
    \/ s.Type = SignalAnalysisComplete
    \/ s.Type = SignalPlanComplete
    \/ s.Type = SignalPlanSkipped

OnToolUse(hd, name) == [hd EXCEPT !.toolCount = @ + 1]

OnText(hd, text) ==
    [hd EXCEPT !.output = Append(@, text), !.toolCount = 0]

OnDone(hd, result) == [hd EXCEPT !.output = Append(@, result)]

OnSignal(hd, signal) ==
    [hd EXCEPT !.signals = Append(@, signal),
               !.shouldStop = IF isTerminalSignal(signal) THEN TRUE ELSE @]

\* Mutant: the ceiling must be exceeded, not met.
CheckThreshold_strict(hd) ==
    IF hd.tokenStats.TotalTokens > hd.tokenThreshold
    THEN [hd EXCEPT !.shouldStop = TRUE,
                    !.signals = Append(@, BudgetBailout),
                    !.cancelCalls = IF hd.hasOnTerminate THEN @ + 1 ELSE @]
    ELSE hd

\* The threshold check that ends OnTokenUsage and OnTokenUsageCumulative.
CheckThreshold(hd) ==
    IF hd.tokenStats.TotalTokens >= hd.tokenThreshold
    THEN [hd EXCEPT !.shouldStop = TRUE,
                    !.signals = Append(@, BudgetBailout),
                    !.cancelCalls = IF hd.hasOnTerminate THEN @ + 1 ELSE @]
    ELSE hd

\* Mutant: input tokens accumulated by addition.
OnTokenUsage_sumInput(hd, usage) ==
    LET in  == hd.tokenStats.InputTokens + usage.InputTokens
        out == hd.tokenStats.OutputTokens + usage.OutputTokens
    IN  CheckThreshold(
          [hd EXCEPT !.tokenStats =
              [InputTokens |-> in, OutputTokens |-> out, TotalTokens |-> in + out]])

OnTokenUsage(hd, usage) ==
    LET in  == IF usage.InputTokens > hd.tokenStats.InputTokens
               THEN usage.InputTokens ELSE hd.tokenStats.InputTokens
        out == hd.tokenStats.OutputTokens + usage.OutputTokens
    IN  CheckThreshold(
          [hd EXCEPT !.tokenStats =
              [InputTokens |-> in, OutputTokens |-> out, TotalTokens |-> in + out]])

OnTokenUsageCumulative(hd, usage) ==
    LET in  == IF usage.InputTokens > hd.tokenStats.InputTokens
               THEN usage.InputTokens ELSE hd.tokenStats.InputTokens
        out == IF usage.OutputTokens > 0
               THEN usage.OutputTokens ELSE hd.tokenStats.OutputTokens
    IN  CheckThreshold(
          [hd EXCEPT !.tokenStats =
              [InputTokens |-> in, OutputTokens |-> out, TotalTokens |-> in + out]])

(***************************************************************************)
(* History of the usage snapshots reported to the handler.                 *)
(***************************************************************************)
NoReports ==
    [sumIn |-> 0, sumOut |-> 0, maxIn |-> 0, cache |-> 0, cumulative |-> 0, usage |-> 0]

Report(r, usage, cache, isCumulative) ==
    [ sumIn  |-> r.sumIn + usage.InputTokens,
      cache  |-> r.cache + cache,
      sumOut |-> r.sumOut + usage.OutputTokens,
      maxIn  |-> IF usage.InputTokens > r.maxIn THEN usage.InputTokens ELSE r.maxIn,
      cumulative |-> r.cumulative + (IF isCumulative THEN 1 ELSE 0),
      usage  |-> r.usage + 1 ]

NoCall == [op |-> "none", usage |-> TokenStats(0, 0), signal |-> Signal("", "", "")]

\* The variables of SpecRun, in the specifications that run no iteration loop.
NoRun ==
    /\ disk = << >>
    /\ diskBad = FALSE
    /\ prdFile = << >>
    /\ iterations = 0
    /\ iter = 0
    /\ rpc = "none"
    /\ start = << >>
    /\ phaseResult = [phase |-> "none", err |-> FALSE, Signals |-> << >>]
    /\ phases = << >>
    /\ iterIdle = TRUE
    /\ idleRun = 0
    /\ bailed = [iter |-> 0, id |-> ""]

\* The variables of SpecConfig, in the specifications that load no configuration.
NoConfig ==
    /\ cfgFile = [present |-> FALSE]
    /\ flags = [tokens |-> 0]
    /\ cfg = [loaded |-> FALSE]
    /\ ceiling = [phase |-> "none", MaxTokens |-> 0]

\* The variables of SpecStore, in the specifications that load no document.
NoStore ==
    /\ doc = [shape |-> "object", prds |-> << >>]
    /\ loadErr = FALSE
    /\ firstLoad = << >>
    /\ queried = [id |-> ""]
    /\ sel = 0
    /\ prevDoc = [shape |-> "object", prds |-> << >>]
    /\ report = [phase |-> "none"]

(***************************************************************************)
(* SpecHandler: the handler called directly.                               *)
(***************************************************************************)
Usages == { TokenStats(i, o) : i \in 0..MaxTok, o \in 0..MaxTok }

DirectSignals ==
    { Signal(t, "", "") : t \in SignalTypes }

InitHandler ==
    /\ h \in { NewConsoleHandlerWithTerminate(c, cb) :
                 c \in 0..MaxThreshold, cb \in BOOLEAN }
    /\ ncalls = 0
    /\ lastCall = NoCall
    /\ reported = NoReports
    /\ pc = "test"
    /\ emitted = 0
    /\ consumed = 0
    /\ proc = "none"
    /\ ret = "none"
    /\ ctxCancelled = FALSE
    /\ readerClosed = FALSE
    /\ NoRun
    /\ chunk = << >>
    /\ iterSignals = {}
    /\ NoStore
    /\ NoConfig

CallOnTokenUsage ==
    /\ ncalls < MaxCalls
    /\ \E u \in Usages :
         /\ h' = OnTokenUsage(h, u)
         /\ lastCall' = [NoCall EXCEPT !.op = "OnTokenUsage", !.usage = u]
         /\ reported' = Report(reported, u, 0, FALSE)
    /\ ncalls' = ncalls + 1

CallOnTokenUsageCumulative ==
    /\ ncalls < MaxCalls
    /\ \E u \in Usages :
         /\ h' = OnTokenUsageCumulative(h, u)
         /\ lastCall' = [NoCall EXCEPT !.op = "OnTokenUsageCumulative", !.usage = u]
         /\ reported' = Report(reported, u, 0, TRUE)
    /\ ncalls' = ncalls + 1

CallOnSignal ==
    /\ ncalls < MaxCalls
    /\ \E s \in DirectSignals :
         /\ h' = OnSignal(h, s)
         /\ lastCall' = [NoCall EXCEPT !.op = "OnSignal", !.signal = s]
    /\ ncalls' = ncalls + 1
    /\ UNCHANGED reported

NextHandler ==
    \/ CallOnTokenUsage /\ UNCHANGED streamVars /\ UNCHANGED runVars /\ UNCHANGED signalVars /\ UNCHANGED idleVars /\ UNCHANGED storeVars /\ UNCHANGED resultVars /\ UNCHANGED configVars
    \/ CallOnTokenUsageCumulative /\ UNCHANGED streamVars /\ UNCHANGED runVars /\ UNCHANGED signalVars /\ UNCHANGED idleVars /\ UNCHANGED storeVars /\ UNCHANGED resultVars /\ UNCHANGED configVars
    \/ CallOnSignal /\ UNCHANGED streamVars /\ UNCHANGED runVars /\ UNCHANGED signalVars /\ UNCHANGED idleVars /\ UNCHANGED storeVars /\ UNCHANGED resultVars /\ UNCHANGED configVars

SpecHandler == InitHandler /\ [][NextHandler]_vars

(***************************************************************************)
(* The stream: newline-delimited JSON written by the subprocess.           *)
(*                                                                         *)
(* A text is a sequence of symbols: the characters "#", ":", " ", "\n"     *)
(* and letters, and one symbol for each signal keyword.                    *)
(***************************************************************************)
Hashes == <<"#", "#", "#">>

RECURSIVE ColonArgs(_)
ColonArgs(args) ==
    IF args = << >> THEN << >> ELSE <<":", Head(args)>> \o ColonArgs(Tail(args))

\* The text of a marker: ###KIND###, ###KIND:arg1### or ###KIND:arg1:arg2###.
Marker(kind, args) == Hashes \o <<kind>> \o ColonArgs(args) \o Hashes

StreamTexts ==
    { << >>,
      Marker(SignalPRDComplete, << >>),
      Marker(SignalVerified, <<"a">>) }

\* The texts of the content_block_delta events: those, and the two pieces of
\* a marker the subprocess wrote in two deltas.
DeltaTexts ==
    StreamTexts \cup { Hashes \o <<SignalPRDComplete>>, Hashes }

\* "usage": {"input_tokens":..,"output_tokens":..,"cache_read_input_tokens":..}
UsageJSON(in, out, cache) ==
    [present |-> TRUE, input_tokens |-> in, output_tokens |-> out,
     cache_read_input_tokens |-> cache]

NoUsageJSON ==
    [present |-> FALSE, input_tokens |-> 0, output_tokens |-> 0,
     cache_read_input_tokens |-> 0]

UsageBlocks ==
    { UsageJSON(i, o, c) : i \in 0..MaxTok, o \in 0..MaxTok, c \in {0, MaxTok} }

\* Mutant: the cache-read tokens counted as input tokens.
UsageBlock_withCache(js) ==
    TokenStats(js.input_tokens + js.cache_read_input_tokens, js.output_tokens)

\* json.Unmarshal into UsageBlock: only input_tokens and output_tokens are fields.
UsageBlock(js) == TokenStats(js.input_tokens, js.output_tokens)

ToolUseBlock == [Type |-> "tool_use", Text |-> << >>]
TextBlock(t) == [Type |-> "text", Text |-> t]

Contents ==
    { << >>, << ToolUseBlock >> }
    \cup { << TextBlock(t) >> : t \in StreamTexts }
    \cup { << TextBlock(Marker(SignalPRDComplete, << >>)), ToolUseBlock,
              TextBlock(Marker(SignalVerified, <<"a">>)) >> }

\* Contents of the assistant events that also carry usage.
UsageContents ==
    { << >>,
      << TextBlock(Marker(SignalPRDComplete, << >>)), ToolUseBlock,
         TextBlock(Marker(SignalVerified, <<"a">>)) >> }

\* One line of the stream.  raw: "blank", "malformed" (json.Unmarshal fails)
\* or "json" (a StreamEvent).
StreamEvent(type) ==
    [ raw |-> "json", Type |-> type, hasMessage |-> FALSE,
      messageUsage |-> NoUsageJSON, content |-> << >>,
      hasDelta |-> FALSE, deltaType |-> "", text |-> << >>,
      usage |-> NoUsageJSON ]

BlankLine     == [StreamEvent("") EXCEPT !.raw = "blank"]
MalformedLine == [StreamEvent("") EXCEPT !.raw = "malformed"]

Lines ==
    { BlankLine, MalformedLine, StreamEvent("system"),
      StreamEvent("message_start"), StreamEvent("assistant"),
      [StreamEvent("content_block_delta") EXCEPT
          !.hasDelta = TRUE, !.deltaType = "input_json_delta"] }
    \cup { [StreamEvent("message_start") EXCEPT
              !.hasMessage = TRUE, !.messageUsage = u] :
           u \in UsageBlocks \cup {NoUsageJSON} }
    \cup { [StreamEvent("content_block_delta") EXCEPT
              !.hasDelta = TRUE, !.deltaType = "text_delta", !.text = t] :
           t \in DeltaTexts }
    \cup { [StreamEvent("message_delta") EXCEPT !.usage = u] :
           u \in { UsageJSON(0, o, 0) : o \in 0..MaxTok } \cup {NoUsageJSON} }
    \cup { [StreamEvent("assistant") EXCEPT
              !.hasMessage = TRUE, !.content = c] : c \in Contents }
    \cup { [StreamEvent("assistant") EXCEPT
              !.hasMessage = TRUE, !.messageUsage = u, !.content = c] :
           u \in UsageBlocks, c \in UsageContents }
    \cup { [StreamEvent("result") EXCEPT !.text = t] : t \in StreamTexts }

(***************************************************************************)
(* The signal patterns.  `.` matches every symbol but "\n"; `(.+?)` is     *)
(* lazy: the shortest group after which the rest of the pattern matches.   *)
(***************************************************************************)
HasAt(text, i, lit) ==
    /\ i >= 1
    /\ i + Len(lit) - 1 <= Len(text)
    /\ SubSeq(text, i, i + Len(lit) - 1) = lit

\* The ends e of a group text[s..e] matching `.+` that is followed by lit.
GroupEnds(text, s, lit) ==
    { e \in s..Len(text) :
        /\ \A k \in s..e : text[k] # "\n"
        /\ HasAt(text, e + 1, lit) }

Least(S) == CHOOSE x \in S : \A y \in S : x <= y

\* Number of capture groups of the pattern of a kind.
Groups(kind) ==
    IF kind \in {SignalPRDComplete, SignalAnalysisComplete} THEN 0
    ELSE IF kind = SignalRejected THEN 2
    ELSE 1

NoMatch == [found |-> FALSE, groups |-> << >>, end |-> 0]

\* The match of the pattern of `kind' that starts at position i, if any.
MatchAt(text, i, kind) ==
    LET s == i + 5
    IN  IF Groups(kind) = 0
        THEN IF HasAt(text, i, Marker(kind, << >>))
             THEN [found |-> TRUE, groups |-> << >>, end |-> i + 6]
             ELSE NoMatch
        ELSE IF ~HasAt(text, i, Hashes \o <<kind, ":">>) THEN NoMatch
        ELSE IF Groups(kind) = 1
        THEN IF GroupEnds(text, s, Hashes) = {} THEN NoMatch
             ELSE LET e == Least(GroupEnds(text, s, Hashes))
                  IN  [found |-> TRUE, groups |-> << SubSeq(text, s, e) >>,
                       end |-> e + 3]
        ELSE LET E1 == { e1 \in GroupEnds(text, s, <<":">>) :
                           GroupEnds(text, e1 + 2, Hashes) # {} }
             IN  IF E1 = {} THEN NoMatch
                 ELSE LET e1 == Least(E1)
                          e2 == Least(GroupEnds(text, e1 + 2, Hashes))
                      IN  [found |-> TRUE,
                           groups |-> << SubSeq(text, s, e1),
                                         SubSeq(text, e1 + 2, e2) >>,
                           end |-> e2 + 3]

\* FindAllStringSubmatch(text, -1) from position i on: leftmost matches that
\* do not overlap.
RECURSIVE FindAllFrom(_, _, _)
FindAllFrom(text, i, kind) ==
    IF i > Len(text) THEN << >>
    ELSE LET m == MatchAt(text, i, kind)
         IN  IF m.found THEN << m.groups >> \o FindAllFrom(text, m.end + 1, kind)
             ELSE FindAllFrom(text, i + 1, kind)

Matches(text, kind) == FindAllFrom(text, 1, kind)

\* FindStringSubmatch: the first match only.
FirstOf(seq) == IF seq = << >> THEN << >> ELSE << seq[1] >>

\* strings.TrimSpace of a group.
RECURSIVE TrimSpace(_)
TrimSpace(g) ==
    IF g = << >> THEN g
    ELSE IF Head(g) = " " THEN TrimSpace(Tail(g))
    ELSE IF g[Len(g)] = " " THEN TrimSpace(SubSeq(g, 1, Len(g) - 1))
    ELSE g

\* The Go string of a sequence of symbols.
RECURSIVE Join(_)
Join(g) == IF g = << >> THEN "" ELSE Head(g) \o Join(Tail(g))

(***************************************************************************)
(* checkSignals: one pattern after the other, in the order of the code.    *)
(* PRD_COMPLETE and ANALYSIS_COMPLETE are MatchString (one signal however  *)
(* many occurrences), BAILOUT and BLOCKED are FindStringSubmatch (the      *)
(* first occurrence), the others FindAllStringSubmatch (every occurrence). *)
(***************************************************************************)
foundSignals(text) ==
    LET str(g) == Join(TrimSpace(g))
        one(kind) == IF Matches(text, kind) = << >> THEN << >>
                     ELSE << Signal(kind, "", "") >>
        details(kind, ms) ==
            [i \in 1..Len(ms) |-> Signal(kind, str(ms[i][1]), "")]
        prdid(kind, ms) ==
            [i \in 1..Len(ms) |-> Signal(kind, "", str(ms[i][1]))]
        both(kind, ms) ==
            [i \in 1..Len(ms) |-> Signal(kind, str(ms[i][2]), str(ms[i][1]))]
    IN  one(SignalPRDComplete)
        \o details(SignalBailout, FirstOf(Matches(text, SignalBailout)))
        \o details(SignalBlocked, FirstOf(Matches(text, SignalBlocked)))
        \o one(SignalAnalysisComplete)
        \o prdid(SignalVerified, Matches(text, SignalVerified))
        \o both(SignalRejected, Matches(text, SignalRejected))
        \o prdid(SignalLoopRisk, Matches(text, SignalLoopRisk))
        \o prdid(SignalPlanComplete, Matches(text, SignalPlanComplete))
        \o details(SignalPlanSkipped, Matches(text, SignalPlanSkipped))
        \o prdid(SignalPlanUpdated, Matches(text, SignalPlanUpdated))

RECURSIVE OnSignals(_, _)
OnSignals(hd, sigs) ==
    IF sigs = << >> THEN hd
    ELSE OnSignals(OnSignal(hd, Head(sigs)), Tail(sigs))

\* Mutant: a signal the handler already holds is not reported again.
checkSignals_dedup(text, hd) ==
    OnSignals(hd, SelectSeq(foundSignals(text),
                            LAMBDA s : \A k \in 1..Len(hd.signals) : hd.signals[k] # s))

checkSignals(text, hd) == OnSignals(hd, foundSignals(text))

(***************************************************************************)
(* ParseStream: the switch on event.Type, then the termination check.      *)
(***************************************************************************)
\* Mutant: the loop over the content leaves at the first segment after which
\* the handler wants to stop.
RECURSIVE OnContent_stopEarly(_, _)
OnContent_stopEarly(hd, content) ==
    IF content = << >> \/ hd.shouldStop THEN hd
    ELSE LET c == Head(content)
             h1 == IF c.Type = "tool_use" THEN OnToolUse(hd, "tool")
                   ELSE IF c.Type = "text"
                        THEN checkSignals(c.Text, OnText(hd, c.Text))
                        ELSE hd
         IN  OnContent_stopEarly(h1, Tail(content))

\* for _, content := range event.Message.Content { switch content.Type ... }
RECURSIVE OnContent(_, _)
OnContent(hd, content) ==
    IF content = << >> THEN hd
    ELSE LET c == Head(content)
             h1 == IF c.Type = "tool_use" THEN OnToolUse(hd, "tool")
                   ELSE IF c.Type = "text"
                        THEN checkSignals(c.Text, OnText(hd, c.Text))
                        ELSE hd
         IN  OnContent(h1, Tail(content))

OnEvent(hd, event) ==
    CASE event.Type = "message_start" ->
           IF event.hasMessage /\ event.messageUsage.present
           THEN OnTokenUsage(hd, UsageBlock(event.messageUsage))
           ELSE hd
      [] event.Type = "content_block_delta" ->
           IF event.hasDelta /\ event.deltaType = "text_delta"
           THEN checkSignals(event.text, OnText(hd, event.text))
           ELSE hd
      [] event.Type = "message_delta" ->
           IF event.usage.present
           THEN OnTokenUsageCumulative(hd, TokenStats(0, UsageBlock(event.usage).OutputTokens))
           ELSE hd
      [] event.Type = "assistant" ->
           IF event.hasMessage
           THEN OnContent(IF event.messageUsage.present
                          THEN OnTokenUsage(hd, UsageBlock(event.messageUsage))
                          ELSE hd,
                          event.content)
           ELSE hd
      [] event.Type = "result" ->
           OnDone(checkSignals(event.text, hd), event.text)
      [] OTHER -> hd

\* Mutant: the loop never notices the flag.
ShouldTerminate_never(hd) == FALSE

ShouldTerminate(hd) == hd.shouldStop

\* What the usage history records for one line: the input_tokens,
\* output_tokens and cache_read_input_tokens of the usage block ParseStream
\* hands to the handler.
ReportLine(r, line) ==
    IF line.raw # "json" THEN r
    ELSE IF line.Type \in {"message_start", "assistant"}
            /\ line.hasMessage /\ line.messageUsage.present
         THEN Report(r, TokenStats(line.messageUsage.input_tokens,
                                   line.messageUsage.output_tokens),
                     line.messageUsage.cache_read_input_tokens, FALSE)
    ELSE IF line.Type = "message_delta" /\ line.usage.present
         THEN Report(r, TokenStats(0, line.usage.output_tokens),
                     line.usage.cache_read_input_tokens, TRUE)
    ELSE r

(***************************************************************************)
(* SpecStream: one phase invocation, runClaude.                            *)
(***************************************************************************)
InitStream ==
    /\ h \in { NewConsoleHandlerWithTerminate(c, TRUE) : c \in 0..MaxThreshold }
    /\ ncalls = 0
    /\ lastCall = NoCall
    /\ reported = NoReports
    /\ pc = "start"
    /\ emitted = 0
    /\ consumed = 0
    /\ proc = "none"
    /\ ret = "none"
    /\ ctxCancelled = FALSE
    /\ readerClosed = FALSE
    /\ NoRun
    /\ chunk = << >>
    /\ iterSignals = {}
    /\ NoStore
    /\ NoConfig

\* claude.Execute(execCtx, opts) starts the subprocess ...
ExecuteOK ==
    /\ pc = "start"
    /\ pc' = "parsing"
    /\ proc' = "running"
    /\ UNCHANGED <<h, ncalls, lastCall, reported, emitted, consumed, ret,
                   ctxCancelled, readerClosed>>

\* ... or fails to: runClaude returns the error, the deferred cancelExec runs.
ExecuteError ==
    /\ pc = "start"
    /\ pc' = "done"
    /\ ret' = "error"
    /\ ctxCancelled' = TRUE
    /\ UNCHANGED <<h, ncalls, lastCall, reported, emitted, consumed, proc,
                   readerClosed>>

\* The subprocess writes one more line to its stdout.
Emit ==
    /\ proc = "running"
    /\ emitted < MaxLines
    /\ emitted' = emitted + 1
    /\ UNCHANGED <<h, ncalls, lastCall, reported, pc, consumed, proc, ret,
                   ctxCancelled, readerClosed>>

\* The subprocess closes its stdout and exits.
Exit ==
    /\ proc = "running"
    /\ proc' = "exited"
    /\ UNCHANGED <<h, ncalls, lastCall, reported, pc, emitted, consumed, ret,
                   ctxCancelled, readerClosed>>

\* Mutant: a line that is not JSON ends ParseStream with the decoding error.
LoopBody_failOnMalformed(hd, line) ==
    IF line.raw = "blank" THEN [h |-> hd, returned |-> FALSE, ret |-> "none"]
    ELSE IF line.raw = "malformed"
    THEN [h |-> hd, returned |-> TRUE, ret |-> "error"]
    ELSE LET h1 == OnEvent(hd, line)
         IN  IF ShouldTerminate(h1)
             THEN [h |-> [h1 EXCEPT !.cancelCalls = @ + 1],
                   returned |-> TRUE, ret |-> "nil"]
             ELSE [h |-> h1, returned |-> FALSE, ret |-> "none"]

\* The body of the loop `for scanner.Scan()` for one line: `continue` on an
\* empty line and on a line json.Unmarshal rejects, else the switch and the
\* termination check (onTerminate, return nil).
LoopBody(hd, line) ==
    IF line.raw # "json" THEN [h |-> hd, returned |-> FALSE, ret |-> "none"]
    ELSE LET h1 == OnEvent(hd, line)
         IN  IF ShouldTerminate(h1)
             THEN [h |-> [h1 EXCEPT !.cancelCalls = @ + 1],
                   returned |-> TRUE, ret |-> "nil"]
             ELSE [h |-> h1, returned |-> FALSE, ret |-> "none"]

\* One turn of the loop `for scanner.Scan()`: a line is read and handled.
ParseStreamLine ==
    /\ pc = "parsing"
    /\ consumed < emitted
    /\ consumed' = consumed + 1
    /\ \E line \in Lines :
         /\ reported' = ReportLine(reported, line)
         /\ lastCall' = [NoCall EXCEPT !.op = line.raw]
         /\ \E r \in {LoopBody(h, line)} :
                /\ h' = r.h
                /\ ctxCancelled' = (ctxCancelled \/ r.h.cancelCalls > 0)
                /\ IF r.returned
                   THEN pc' = "returned" /\ ret' = r.ret
                   ELSE UNCHANGED <<pc, ret>>
    /\ UNCHANGED <<ncalls, emitted, proc, readerClosed>>

\* scanner.Scan() returns false: end of the stream, or a read error.
ParseStreamEnd ==
    /\ pc = "parsing"
    /\ consumed = emitted
    /\ proc = "exited"
    /\ pc' = "returned"
    /\ ret' \in {"nil", "error"}
    /\ UNCHANGED <<h, ncalls, lastCall, reported, emitted, consumed, proc,
                   ctxCancelled, readerClosed>>

\* Mutant: runClaude returns without the deferred reader.Close().
RunClaudeReturn_noClose ==
    /\ pc = "returned"
    /\ pc' = "done"
    /\ ctxCancelled' = TRUE
    /\ proc' = "exited"
    /\ UNCHANGED <<h, ncalls, lastCall, reported, emitted, consumed, ret,
                   readerClosed>>

\* runClaude returns: the deferred reader.Close() and cancelExec() run.
RunClaudeReturn ==
    /\ pc = "returned"
    /\ pc' = "done"
    /\ readerClosed' = TRUE
    /\ ctxCancelled' = TRUE
    /\ proc' = "exited"
    /\ UNCHANGED <<h, ncalls, lastCall, reported, emitted, consumed, ret>>

NextStream ==
    \/ ExecuteOK /\ UNCHANGED runVars /\ UNCHANGED signalVars /\ UNCHANGED idleVars /\ UNCHANGED storeVars /\ UNCHANGED resultVars /\ UNCHANGED configVars
    \/ ExecuteError /\ UNCHANGED runVars /\ UNCHANGED signalVars /\ UNCHANGED idleVars /\ UNCHANGED storeVars /\ UNCHANGED resultVars /\ UNCHANGED configVars
    \/ Emit /\ UNCHANGED runVars /\ UNCHANGED signalVars /\ UNCHANGED idleVars /\ UNCHANGED storeVars /\ UNCHANGED resultVars /\ UNCHANGED configVars
    \/ Exit /\ UNCHANGED runVars /\ UNCHANGED signalVars /\ UNCHANGED idleVars /\ UNCHANGED storeVars /\ UNCHANGED resultVars /\ UNCHANGED configVars
    \/ ParseStreamLine /\ UNCHANGED runVars /\ UNCHANGED signalVars /\ UNCHANGED idleVars /\ UNCHANGED storeVars /\ UNCHANGED resultVars /\ UNCHANGED configVars
    \/ ParseStreamEnd /\ UNCHANGED runVars /\ UNCHANGED signalVars /\ UNCHANGED idleVars /\ UNCHANGED storeVars /\ UNCHANGED resultVars /\ UNCHANGED configVars
    \/ RunClaudeReturn /\ UNCHANGED runVars /\ UNCHANGED signalVars /\ UNCHANGED idleVars /\ UNCHANGED storeVars /\ UNCHANGED resultVars /\ UNCHANGED configVars

SpecStream == InitStream /\ [][NextStream]_vars


(***************************************************************************)
(* SpecSignals: checkSignals applied to one text.                          *)
(***************************************************************************)
\* What the texts are put together from: well-formed markers, markers with
\* the wrong number of arguments, unterminated markers and loose pieces.
Segments ==
    { Marker(SignalVerified, <<"a">>), Marker(SignalVerified, <<"b">>),
      Marker(SignalRejected, <<"a", "x">>), Marker(SignalBailout, <<"x">>),
      Marker(SignalPRDComplete, << >>),
      Marker(SignalVerified, <<"a", "x">>), Marker(SignalRejected, <<"a">>),
      Hashes \o <<SignalVerified, ":">>, Hashes \o <<SignalVerified, ":", "a">>,
      Hashes \o <<SignalBailout>>,
      Hashes, <<":">>, <<"x">>, <<" ">>, <<"\n">> }

RECURSIVE TextsOf(_)
TextsOf(n) ==
    IF n = 0 THEN { << >> }
    ELSE LET T == TextsOf(n - 1)
         IN  T \cup { t \o sg : t \in T, sg \in Segments }

InitSignals ==
    /\ chunk \in TextsOf(MaxSegs)
    /\ iterSignals = {}
    /\ NoStore
    /\ NoConfig
    /\ h = NewConsoleHandlerWithTerminate(0, FALSE)
    /\ ncalls = 0
    /\ lastCall = NoCall
    /\ reported = NoReports
    /\ pc = "scan"
    /\ emitted = 0
    /\ consumed = 0
    /\ proc = "none"
    /\ ret = "none"
    /\ ctxCancelled = FALSE
    /\ readerClosed = FALSE
    /\ NoRun

CheckSignals ==
    /\ pc = "scan"
    /\ h' = checkSignals(chunk, h)
    /\ pc' = "scanned"
    /\ UNCHANGED <<ncalls, lastCall, reported, emitted, consumed, proc, ret,
                   ctxCancelled, readerClosed, chunk>>

NextSignals ==
    \/ CheckSignals /\ UNCHANGED runVars /\ UNCHANGED idleVars /\ UNCHANGED storeVars /\ UNCHANGED resultVars /\ UNCHANGED configVars

SpecSignals == InitSignals /\ [][NextSignals]_vars


(***************************************************************************)
(* internal/prd: the store and its status field.                           *)
(***************************************************************************)
\* PassesStatus.Value is a Go interface{} holding a bool or a string.
BoolValue(b) == [kind |-> "bool", b |-> b, s |-> ""]
StringValue(s) == [kind |-> "string", b |-> FALSE, s |-> s]

IsFalse(p)   == p.Value.kind = "bool" /\ ~p.Value.b
IsActive(p)  == p.Value.kind = "string" /\ p.Value.s = "active"
IsPending(p) == p.Value.kind = "string" /\ p.Value.s = "pending"
IsTrue(p)    == p.Value.kind = "bool" /\ p.Value.b

SetFalse(p)   == [p EXCEPT !.Value = BoolValue(FALSE)]
SetActive(p)  == [p EXCEPT !.Value = StringValue("active")]
SetPending(p) == [p EXCEPT !.Value = StringValue("pending")]
SetTrue(p)    == [p EXCEPT !.Value = BoolValue(TRUE)]

PassesStatus ==
    { [Value |-> BoolValue(FALSE)], [Value |-> StringValue("active")],
      [Value |-> StringValue("pending")], [Value |-> BoolValue(TRUE)] }

PRDIDs == <<"prd-1", "prd-2", "prd-3", "prd-4">>
\* GetPlanPath without the base path.
GetPlanPath(prdID) == ".milhouse/plans/" \o prdID \o "-plan.md"

\* A PRD of the initial store: one that is Active or Pending has the plan
\* the planner made for it.
PRD(i, passes) ==
    [ID |-> PRDIDs[i], Priority |-> i, Passes |-> passes, Notes |-> "",
     ActivePlan |-> IF IsActive(passes) \/ IsPending(passes)
                    THEN GetPlanPath(PRDIDs[i]) ELSE ""]

\* The stores of 1..MaxPRDs PRDs, every status combination.
PRDFileData ==
    UNION { { [i \in 1..n |-> PRD(i, f[i])] : f \in [1..n -> PassesStatus] }
            : n \in 1..MaxPRDs }

GetOpenPRDs(prds)     == SelectSeq(prds, LAMBDA p : IsFalse(p.Passes))
GetActivePRDs(prds)   == SelectSeq(prds, LAMBDA p : IsActive(p.Passes))
GetPendingPRDs(prds)  == SelectSeq(prds, LAMBDA p : IsPending(p.Passes))
\* Mutant: every PRD whose status is a bool counts as complete.
GetCompletePRDs_anyBool(prds) ==
    SelectSeq(prds, LAMBDA p : p.Passes.Value.kind = "bool")

GetCompletePRDs(prds) == SelectSeq(prds, LAMBDA p : IsTrue(p.Passes))

\* Mutant: an unreadable file loads as an empty store.
Load_lenient == [err |-> FALSE, prds |-> IF diskBad THEN << >> ELSE disk]

\* prd.Load: the file's PRDs, or an error when it cannot be read or parsed.
Load == IF diskBad THEN [err |-> TRUE, prds |-> << >>]
                   ELSE [err |-> FALSE, prds |-> disk]

(***************************************************************************)
(* The three phase predicates.                                             *)
(***************************************************************************)
ShouldRunPlanner_ignoreActive(prds) ==
    Len(GetOpenPRDs(prds)) # 0

ShouldRunPlanner(prds) ==
    IF Len(GetActivePRDs(prds)) > 0 THEN FALSE
    ELSE IF Len(GetOpenPRDs(prds)) = 0 THEN FALSE
    ELSE TRUE

ShouldRunBuilder(prds) == Len(GetActivePRDs(prds)) > 0

ShouldRunReviewer(prds) ==
    IF Len(GetPendingPRDs(prds)) > 0 THEN TRUE
    ELSE IF Len(GetActivePRDs(prds)) > 0 THEN TRUE
    ELSE IF Len(GetOpenPRDs(prds)) > 0 THEN TRUE
    ELSE FALSE

(***************************************************************************)
(* What an agent subprocess writes to prd.json.  The controllers only read *)
(* the store; every status change is an edit of the file by the agent, as  *)
(* the transitions table of the architecture document describes it.        *)
(***************************************************************************)
\* Planner: Open -> Active for one PRD of its choice, or no change.
PlannerAgent(store) ==
    {store} \cup
    { [store EXCEPT ![i].Passes = SetActive(@),
                    ![i].ActivePlan = GetPlanPath(store[i].ID)] :
        i \in {j \in 1..Len(store) : IsFalse(store[j].Passes)} }

BuilderAgent_completes(store, id) ==
    {store} \cup
    { [store EXCEPT ![i].Passes = SetTrue(@)] :
        i \in {j \in 1..Len(store) :
                 store[j].ID = id /\ IsActive(store[j].Passes)} }

\* Builder: Active -> Pending for the PRD it was given, or no change (bailout).
BuilderAgent(store, id) ==
    {store} \cup
    { [store EXCEPT ![i].Passes = SetPending(@)] :
        i \in {j \in 1..Len(store) :
                 store[j].ID = id /\ IsActive(store[j].Passes)} }

RejectReason == "needs tests"

\* Reviewer: each Pending PRD is verified (Complete), rejected (Open) or left.
ReviewOutcomes(p) ==
    IF IsPending(p.Passes)
    THEN { p,
           [p EXCEPT !.Passes = SetTrue(@), !.ActivePlan = ""],
           [p EXCEPT !.Passes = SetFalse(@), !.ActivePlan = "",
                     !.Notes = RejectReason] }
    ELSE { p }

ReviewerAgent(store) ==
    { s \in [1..Len(store) -> UNION { ReviewOutcomes(store[i]) : i \in 1..Len(store) }] :
        \A i \in 1..Len(store) : s[i] \in ReviewOutcomes(store[i]) }

\* What a phase controller returns.
NoResult == [phase |-> "none", err |-> FALSE, Signals |-> << >>]
Failed(phase) == [phase |-> phase, err |-> TRUE, Signals |-> << >>]
Returned(phase, signals) == [phase |-> phase, err |-> FALSE, Signals |-> signals]

\* The signals an agent's output can hold, whatever it wrote to prd.json:
\* the planner names an Open PRD, the reviewer a Pending one.
PlannerSignals(store) ==
    { << >>, << Signal(SignalPlanSkipped, "nothing to plan", "") >> }
    \cup { << Signal(SignalPlanComplete, "", store[i].ID) >> :
             i \in {j \in 1..Len(store) : IsFalse(store[j].Passes)} }

BuilderSignals ==
    { << >>, << Signal(SignalPRDComplete, "", "") >>,
      << Signal(SignalBailout, "context limit", "") >> }

ReviewerSignals(store) ==
    { << >>, << Signal(SignalAnalysisComplete, "", "") >>,
      << Signal(SignalAnalysisComplete, "", ""),
         Signal(SignalLoopRisk, "", store[1].ID) >> }
    \cup { << Signal(SignalVerified, "", store[i].ID) >> :
             i \in {j \in 1..Len(store) : IsPending(store[j].Passes)} }
    \cup { << Signal(SignalRejected, RejectReason, store[i].ID) >> :
             i \in {j \in 1..Len(store) : IsPending(store[j].Passes)} }

\* The file after an agent ran: one of `writes', or left unparseable.
AgentWrote(writes) ==
    \/ disk' \in writes /\ diskBad' = FALSE
    \/ disk' = disk /\ diskBad' = TRUE

(***************************************************************************)
(* SpecRun: runRun, the iteration loop of `mil run N`.                     *)
(***************************************************************************)
(* Iteration state tracking (iteration_state.go).                          *)
(***************************************************************************)
\* CaptureIterationState: the PRD counts and the deduplicated signal types.
CaptureIterationState(prds, types) ==
    [ CompleteCount |-> Len(SelectSeq(prds, LAMBDA p : IsTrue(p.Passes))),
      PendingCount  |-> Len(SelectSeq(prds, LAMBDA p :
                              ~IsTrue(p.Passes) /\ IsPending(p.Passes))),
      ActiveCount   |-> Len(SelectSeq(prds, LAMBDA p :
                              ~IsTrue(p.Passes) /\ ~IsPending(p.Passes)
                              /\ IsActive(p.Passes))),
      OpenCount     |-> Len(SelectSeq(prds, LAMBDA p :
                              ~IsTrue(p.Passes) /\ ~IsPending(p.Passes)
                              /\ ~IsActive(p.Passes))),
      SignalTypes   |-> types ]

productiveSignals ==
    { SignalVerified, SignalRejected, SignalPlanComplete, SignalPlanUpdated,
      SignalPRDComplete }

nonProductiveSignals == { SignalLoopRisk, SignalAnalysisComplete, SignalBlocked }

allNonProductive(signals) == \A sig \in signals : sig \in nonProductiveSignals

IsIdle(s) ==
    IF \E sig \in s.SignalTypes : sig \in productiveSignals THEN FALSE
    ELSE s.SignalTypes = {} \/ allNonProductive(s.SignalTypes)

\* The types of the signals of a phase result.
TypesOf(signals) == { signals[k].Type : k \in 1..Len(signals) }

\* The signals of one phase result leave the iteration idle.
PhaseIdle(r) == IsIdle(CaptureIterationState(prdFile, TypesOf(r.Signals)))

NoBailout == [iter |-> 0, id |-> ""]

\* The iteration before this loop head, if any, is over: it was idle or not.
IterationClosed ==
    /\ iterIdle' = TRUE
    /\ idleRun' = IF iter = 1 THEN 0
                  ELSE IF iterIdle THEN idleRun + 1
                  ELSE 0
    /\ bailed' = IF bailed.iter + 1 < iter THEN NoBailout ELSE bailed

(***************************************************************************)
(* SpecIdle: CaptureIterationState and IsIdle on the signals of one        *)
(* iteration.                                                              *)
(***************************************************************************)
InitIdle ==
    /\ iterSignals \in SUBSET SignalTypes
    /\ NoStore
    /\ NoConfig
    /\ prdFile \in PRDFileData
    /\ rpc = "capture"
    /\ iterIdle = FALSE
    /\ disk = << >>
    /\ diskBad = FALSE
    /\ iterations = 0
    /\ iter = 0
    /\ start = << >>
    /\ phaseResult = NoResult
    /\ phases = << >>
    /\ idleRun = 0
    /\ bailed = NoBailout
    /\ chunk = << >>
    /\ h = NewConsoleHandlerWithTerminate(0, FALSE)
    /\ ncalls = 0
    /\ lastCall = NoCall
    /\ reported = NoReports
    /\ pc = "none"
    /\ emitted = 0
    /\ consumed = 0
    /\ proc = "none"
    /\ ret = "none"
    /\ ctxCancelled = FALSE
    /\ readerClosed = FALSE

\* state := CaptureIterationState(prdFile, signals); state.IsIdle()
Classify ==
    /\ rpc = "capture"
    /\ iterIdle' = IsIdle(CaptureIterationState(prdFile, iterSignals))
    /\ rpc' = "classified"
    /\ UNCHANGED <<disk, diskBad, prdFile, iterations, iter, start,
                   phaseResult, phases, idleRun, bailed>>

NextIdle ==
    \/ Classify /\ UNCHANGED handlerVars /\ UNCHANGED streamVars
                /\ UNCHANGED signalVars /\ UNCHANGED idleVars /\ UNCHANGED storeVars /\ UNCHANGED resultVars /\ UNCHANGED configVars

SpecIdle == InitIdle /\ [][NextIdle]_vars

(***************************************************************************)
InitRun ==
    /\ disk \in PRDFileData
    /\ diskBad \in BOOLEAN
    /\ prdFile = << >>
    /\ iterations \in 1..MaxIterations
    /\ iter = 1
    /\ rpc = "iterStart"
    /\ start = disk
    /\ phaseResult = NoResult
    /\ phases = << >>
    /\ iterIdle = TRUE
    /\ idleRun = 0
    /\ bailed = NoBailout
    /\ chunk = << >>
    /\ iterSignals = {}
    /\ NoStore
    /\ NoConfig
    /\ h = NewConsoleHandlerWithTerminate(0, FALSE)
    /\ ncalls = 0
    /\ lastCall = NoCall
    /\ reported = NoReports
    /\ pc = "none"
    /\ emitted = 0
    /\ consumed = 0
    /\ proc = "none"
    /\ ret = "none"
    /\ ctxCancelled = FALSE
    /\ readerClosed = FALSE

\* for i := 1; i <= iterations; i++ { prd.Load; break when nothing is left }
IterationStart ==
    /\ rpc = "iterStart"
    /\ iter <= iterations
    /\ IF Load.err
       THEN rpc' = "error" /\ UNCHANGED prdFile
       ELSE /\ prdFile' = Load.prds
            /\ rpc' = IF /\ Len(GetOpenPRDs(Load.prds)) = 0
                         /\ Len(GetActivePRDs(Load.prds)) = 0
                         /\ Len(GetPendingPRDs(Load.prds)) = 0
                      THEN "final" ELSE "plannerCheck"
    /\ phaseResult' = NoResult
    /\ phases' = << >>
    /\ IterationClosed
    /\ UNCHANGED <<disk, diskBad, iterations, iter, start>>

LoopEnd ==
    /\ rpc = "iterStart"
    /\ iter > iterations
    /\ rpc' = "final"
    /\ phaseResult' = NoResult
    /\ phases' = << >>
    /\ IterationClosed
    /\ UNCHANGED <<disk, diskBad, prdFile, iterations, iter, start>>

PlannerCheck ==
    /\ rpc = "plannerCheck"
    /\ rpc' = IF ShouldRunPlanner(prdFile) THEN "plannerRun" ELSE "builderCheck"
    /\ UNCHANGED <<disk, diskBad, prdFile, iterations, iter, start, phaseResult, phases, iterIdle, idleRun, bailed>>

\* planner.Run: an error `continue's to the next iteration.
PlannerRun ==
    /\ rpc = "plannerRun"
    /\ phases' = Append(phases, "planner")
    /\ \/ /\ phaseResult' = Failed("planner")
          /\ rpc' = "iterStart"
          /\ iter' = iter + 1
          /\ UNCHANGED <<disk, diskBad>>
       \/ /\ AgentWrote(PlannerAgent(disk))
          /\ phaseResult' \in { Returned("planner", sg) : sg \in PlannerSignals(prdFile) }
          /\ rpc' = "plannerReload"
          /\ UNCHANGED iter
    /\ iterIdle' = (iterIdle /\ PhaseIdle(phaseResult'))
    /\ UNCHANGED <<prdFile, iterations, start, idleRun, bailed>>

PlannerReload ==
    /\ rpc = "plannerReload"
    /\ IF Load.err
       THEN rpc' = "error" /\ UNCHANGED prdFile
       ELSE prdFile' = Load.prds /\ rpc' = "builderCheck"
    /\ phaseResult' = NoResult
    /\ UNCHANGED <<disk, diskBad, iterations, iter, start, phases, iterIdle, idleRun, bailed>>

BuilderCheck ==
    /\ rpc = "builderCheck"
    /\ rpc' = IF ShouldRunBuilder(prdFile) THEN "builderRun" ELSE "reviewerCheck"
    /\ UNCHANGED <<disk, diskBad, prdFile, iterations, iter, start, phaseResult, phases, iterIdle, idleRun, bailed>>

\* builder.Run on activePRDs[0]: an error is only reported.
BuilderRun ==
    /\ rpc = "builderRun"
    /\ phases' = Append(phases, "builder")
    /\ \/ /\ phaseResult' = Failed("builder")
          /\ UNCHANGED <<disk, diskBad, bailed>>
       \/ /\ AgentWrote(BuilderAgent(disk, GetActivePRDs(prdFile)[1].ID))
          /\ phaseResult' \in { Returned("builder", sg) : sg \in BuilderSignals }
          /\ UNCHANGED bailed
       \/ /\ phaseResult' = Returned("builder", << BudgetBailout >>)
          /\ bailed' = [iter |-> iter, id |-> GetActivePRDs(prdFile)[1].ID]
          /\ UNCHANGED <<disk, diskBad>>
    /\ iterIdle' = (iterIdle /\ PhaseIdle(phaseResult'))
    /\ rpc' = "builderReload"
    /\ UNCHANGED <<prdFile, iterations, iter, start, idleRun>>

\* Mutant: the reviewer is given the store as it was before the builder ran.
BuilderReload_stale ==
    /\ rpc = "builderReload"
    /\ IF Load.err
       THEN rpc' = "error" /\ UNCHANGED prdFile
       ELSE UNCHANGED prdFile /\ rpc' = "reviewerCheck"
    /\ phaseResult' = NoResult
    /\ UNCHANGED <<disk, diskBad, iterations, iter, start, phases, iterIdle, idleRun, bailed>>

BuilderReload ==
    /\ rpc = "builderReload"
    /\ IF Load.err
       THEN rpc' = "error" /\ UNCHANGED prdFile
       ELSE prdFile' = Load.prds /\ rpc' = "reviewerCheck"
    /\ phaseResult' = NoResult
    /\ UNCHANGED <<disk, diskBad, iterations, iter, start, phases, iterIdle, idleRun, bailed>>

ReviewerCheck ==
    /\ rpc = "reviewerCheck"
    /\ IF ShouldRunReviewer(prdFile)
       THEN rpc' = "reviewerRun" /\ UNCHANGED iter
       ELSE rpc' = "iterStart" /\ iter' = iter + 1
    /\ UNCHANGED <<disk, diskBad, prdFile, iterations, start, phaseResult, phases, iterIdle, idleRun, bailed>>

\* reviewer.Run: an error is only a warning; the iteration ends either way.
ReviewerRun ==
    /\ rpc = "reviewerRun"
    /\ phases' = Append(phases, "reviewer")
    /\ \/ /\ phaseResult' = Failed("reviewer")
          /\ UNCHANGED <<disk, diskBad>>
       \/ /\ AgentWrote(ReviewerAgent(disk))
          /\ phaseResult' \in { Returned("reviewer", sg) : sg \in ReviewerSignals(prdFile) }
    /\ iterIdle' = (iterIdle /\ PhaseIdle(phaseResult'))
    /\ rpc' = "iterStart"
    /\ iter' = iter + 1
    /\ UNCHANGED <<prdFile, iterations, start, idleRun, bailed>>

\* After the loop: the final prd.Load and the status summary.
FinalStatus ==
    /\ rpc = "final"
    /\ IF Load.err
       THEN rpc' = "error" /\ UNCHANGED prdFile
       ELSE prdFile' = Load.prds /\ rpc' = "exit"
    /\ UNCHANGED <<disk, diskBad, iterations, iter, start, phaseResult, phases, iterIdle, idleRun, bailed>>

NextRun ==
    \/ IterationStart /\ UNCHANGED handlerVars /\ UNCHANGED streamVars /\ UNCHANGED signalVars /\ UNCHANGED idleVars /\ UNCHANGED storeVars /\ UNCHANGED resultVars /\ UNCHANGED configVars
    \/ LoopEnd /\ UNCHANGED handlerVars /\ UNCHANGED streamVars /\ UNCHANGED signalVars /\ UNCHANGED idleVars /\ UNCHANGED storeVars /\ UNCHANGED resultVars /\ UNCHANGED configVars
    \/ PlannerCheck /\ UNCHANGED handlerVars /\ UNCHANGED streamVars /\ UNCHANGED signalVars /\ UNCHANGED idleVars /\ UNCHANGED storeVars /\ UNCHANGED resultVars /\ UNCHANGED configVars
    \/ PlannerRun /\ UNCHANGED handlerVars /\ UNCHANGED streamVars /\ UNCHANGED signalVars /\ UNCHANGED idleVars /\ UNCHANGED storeVars /\ UNCHANGED resultVars /\ UNCHANGED configVars
    \/ PlannerReload /\ UNCHANGED handlerVars /\ UNCHANGED streamVars /\ UNCHANGED signalVars /\ UNCHANGED idleVars /\ UNCHANGED storeVars /\ UNCHANGED resultVars /\ UNCHANGED configVars
    \/ BuilderCheck /\ UNCHANGED handlerVars /\ UNCHANGED streamVars /\ UNCHANGED signalVars /\ UNCHANGED idleVars /\ UNCHANGED storeVars /\ UNCHANGED resultVars /\ UNCHANGED configVars
    \/ BuilderRun /\ UNCHANGED handlerVars /\ UNCHANGED streamVars /\ UNCHANGED signalVars /\ UNCHANGED idleVars /\ UNCHANGED storeVars /\ UNCHANGED resultVars /\ UNCHANGED configVars
    \/ BuilderReload /\ UNCHANGED handlerVars /\ UNCHANGED streamVars /\ UNCHANGED signalVars /\ UNCHANGED idleVars /\ UNCHANGED storeVars /\ UNCHANGED resultVars /\ UNCHANGED configVars
    \/ ReviewerCheck /\ UNCHANGED handlerVars /\ UNCHANGED streamVars /\ UNCHANGED signalVars /\ UNCHANGED idleVars /\ UNCHANGED storeVars /\ UNCHANGED resultVars /\ UNCHANGED configVars
    \/ ReviewerRun /\ UNCHANGED handlerVars /\ UNCHANGED streamVars /\ UNCHANGED signalVars /\ UNCHANGED idleVars /\ UNCHANGED storeVars /\ UNCHANGED resultVars /\ UNCHANGED configVars
    \/ FinalStatus /\ UNCHANGED handlerVars /\ UNCHANGED streamVars /\ UNCHANGED signalVars /\ UNCHANGED idleVars /\ UNCHANGED storeVars /\ UNCHANGED resultVars /\ UNCHANGED configVars

SpecRun == InitRun /\ [][NextRun]_vars

(***************************************************************************)
(* SpecStore: internal/prd on a JSON document.  prd.json is read by        *)
(* prd.Load, queried, searched by SelectNext, written back by prd.Save and *)
(* read again.                                                             *)
(***************************************************************************)
\* JSON values of a member of a record: a missing member, null, a bool, a
\* string or a number.
JAbsent == [kind |-> "absent", b |-> FALSE, s |-> ""]
JNull == [kind |-> "null", b |-> FALSE, s |-> ""]
JBool(b) == [kind |-> "bool", b |-> b, s |-> ""]
JString(s) == [kind |-> "string", b |-> FALSE, s |-> s]
JNumber == [kind |-> "number", b |-> FALSE, s |-> "1"]

\* PassesStatus.Value of a PassesStatus nothing was stored in: a nil interface.
NilValue == [kind |-> "nil", b |-> FALSE, s |-> ""]

\* json.Unmarshal(data, &b) for a bool b: null leaves b as it is (false) and
\* is no error.
UnmarshalBool(data) ==
    IF data.kind = "bool" THEN [err |-> FALSE, b |-> data.b]
    ELSE IF data.kind = "null" THEN [err |-> FALSE, b |-> FALSE]
    ELSE [err |-> TRUE, b |-> FALSE]

\* json.Unmarshal(data, &s) for a string s.
UnmarshalString(data) ==
    IF data.kind = "string" THEN [err |-> FALSE, s |-> data.s]
    ELSE IF data.kind = "null" THEN [err |-> FALSE, s |-> ""]
    ELSE [err |-> TRUE, s |-> ""]

\* PassesStatus.UnmarshalJSON.
UnmarshalJSON(data) ==
    IF ~UnmarshalBool(data).err
    THEN [err |-> FALSE, Value |-> BoolValue(UnmarshalBool(data).b)]
    ELSE IF ~UnmarshalString(data).err
    THEN IF UnmarshalString(data).s = "active" \/ UnmarshalString(data).s = "pending"
         THEN [err |-> FALSE, Value |-> StringValue(UnmarshalString(data).s)]
         ELSE [err |-> TRUE, Value |-> NilValue]
    ELSE [err |-> TRUE, Value |-> NilValue]

\* PassesStatus.MarshalJSON: json.Marshal of Value; a nil interface is null.
MarshalJSON(p) ==
    IF p.Value.kind = "bool" THEN JBool(p.Value.b)
    ELSE IF p.Value.kind = "string" THEN JString(p.Value.s)
    ELSE JNull

\* json.Unmarshal of one object into a PRD: a member the object does not have
\* leaves the field at its zero value, and UnmarshalJSON is not called.
UnmarshalPRD(raw) ==
    [err |-> raw.passes.kind # "absent" /\ UnmarshalJSON(raw.passes).err,
     prd |-> [ID |-> raw.id,
              Priority |-> raw.priority,
              Passes |-> [Value |-> IF raw.passes.kind = "absent" THEN NilValue
                                    ELSE UnmarshalJSON(raw.passes).Value],
              Notes |-> raw.notes,
              ActivePlan |-> IF raw.activePlan.kind = "string"
                             THEN raw.activePlan.s ELSE ""]]

\* json.Unmarshal(data, &prdFile) in prd.Load: anything but a JSON object at
\* the top level (an array, no input at all, a syntax error) is an error.
Unmarshal(data) ==
    IF data.shape # "object" \/ \E i \in 1..Len(data.prds) : UnmarshalPRD(data.prds[i]).err
    THEN [err |-> TRUE, prds |-> << >>]
    ELSE [err |-> FALSE,
          prds |-> [i \in 1..Len(data.prds) |-> UnmarshalPRD(data.prds[i]).prd]]

\* json.MarshalIndent(prdFile) in prd.Save; activePlan is omitempty.
MarshalPRD(p) ==
    [id |-> p.ID, priority |-> p.Priority, passes |-> MarshalJSON(p.Passes),
     notes |-> p.Notes,
     activePlan |-> IF p.ActivePlan = "" THEN JAbsent ELSE JString(p.ActivePlan)]

MarshalIndent(prds) ==
    [shape |-> "object", prds |-> [i \in 1..Len(prds) |-> MarshalPRD(prds[i])]]

\* The indexes of the PRDs with the given id.
WithID(prds, id) == { i \in 1..Len(prds) : prds[i].ID = id }

\* FindByID: the index of the first PRD with the id (the pointer &p.PRDs[i]),
\* 0 for nil.
FindByID(prds, id) ==
    IF WithID(prds, id) = {} THEN 0
    ELSE CHOOSE i \in WithID(prds, id) : \A j \in WithID(prds, id) : i <= j

\* sort.Slice(open, by Priority): the elements in ascending priority.  The
\* sort is not stable; up to 12 elements it is an insertion sort, which keeps
\* elements of equal priority in their order, beyond that they come out in
\* any order.
SortSlice(open) ==
    { [k \in 1..Len(open) |-> open[perm[k]]] :
        perm \in { f \in [1..Len(open) -> 1..Len(open)] :
                     /\ \A a, b \in 1..Len(open) : a # b => f[a] # f[b]
                     /\ \A a, b \in 1..Len(open) :
                          a < b => open[f[a]].Priority <= open[f[b]].Priority
                     /\ Len(open) <= 12 =>
                          \A a, b \in 1..Len(open) :
                              a < b /\ open[f[a]].Priority = open[f[b]].Priority
                                  => f[a] < f[b] } }

\* SelectNext, `sorted` being what sort.Slice made of the Open PRDs: the index
\* of the first PRD whose ID is that of sorted[0], 0 for nil.
SelectNext(prds, sorted) ==
    IF Len(GetOpenPRDs(prds)) = 0 THEN 0
    ELSE FindByID(prds, sorted[1].ID)

\* The documents prd.json can hold.
DocIDs == {"prd-1", "prd-2"}
DocPriorities == {1, 2}
JSONPasses ==
    { JAbsent, JNull, JBool(FALSE), JBool(TRUE), JString("active"),
      JString("pending"), JString("done"), JNumber }
RawPRDs ==
    [id : DocIDs, priority : DocPriorities, passes : JSONPasses, notes : {""},
     activePlan : {JAbsent, JString(GetPlanPath("prd-1"))}]
\* The file is {"prds": [...]}, a bare array [...], empty, or no JSON at all.
EmptyFile == [shape |-> "empty", prds |-> << >>]
Documents ==
    { EmptyFile, [shape |-> "invalid", prds |-> << >>] } \cup
    { [shape |-> sh, prds |-> raws] :
        sh \in {"object", "array"},
        raws \in UNION { [1..n -> RawPRDs] : n \in 0..MaxRecs } }

NoQuery == [id |-> ""]

InitStore ==
    /\ doc \in Documents
    /\ loadErr = FALSE
    /\ firstLoad = << >>
    /\ queried = NoQuery
    /\ sel = 0
    /\ prevDoc = doc
    /\ report = [phase |-> "none"]
    /\ NoConfig
    /\ prdFile = << >>
    /\ rpc = "load"
    /\ disk = << >>
    /\ diskBad = FALSE
    /\ iterations = 0
    /\ iter = 0
    /\ start = << >>
    /\ phaseResult = NoResult
    /\ phases = << >>
    /\ iterIdle = TRUE
    /\ idleRun = 0
    /\ bailed = NoBailout
    /\ chunk = << >>
    /\ iterSignals = {}
    /\ h = NewConsoleHandlerWithTerminate(0, FALSE)
    /\ ncalls = 0
    /\ lastCall = NoCall
    /\ reported = NoReports
    /\ pc = "none"
    /\ emitted = 0
    /\ consumed = 0
    /\ proc = "none"
    /\ ret = "none"
    /\ ctxCancelled = FALSE
    /\ readerClosed = FALSE

storeFrame ==
    UNCHANGED <<disk, diskBad, iterations, iter, start, phaseResult, phases,
                iterIdle, idleRun, bailed>>

\* prdFile, err := prd.Load(basePath)
LoadFile ==
    /\ rpc = "load"
    /\ loadErr' = Unmarshal(doc).err
    /\ prdFile' = Unmarshal(doc).prds
    /\ firstLoad' = Unmarshal(doc).prds
    /\ rpc' = IF Unmarshal(doc).err THEN "failed" ELSE "query"
    /\ UNCHANGED <<doc, queried, sel, prevDoc>>
    /\ storeFrame

\* The typed queries and FindByID on the loaded store.
Queries ==
    /\ rpc = "query"
    /\ \E id \in DocIDs \cup {"prd-9"} :
         queried' = [id |-> id,
                     open |-> GetOpenPRDs(prdFile),
                     active |-> GetActivePRDs(prdFile),
                     pending |-> GetPendingPRDs(prdFile),
                     complete |-> GetCompletePRDs(prdFile),
                     found |-> FindByID(prdFile, id)]
    /\ rpc' = "select"
    /\ UNCHANGED <<doc, loadErr, firstLoad, sel, prevDoc, prdFile>>
    /\ storeFrame

\* next := prd.SelectNext(prdFile)
CallSelectNext ==
    /\ rpc = "select"
    /\ \E sorted \in SortSlice(GetOpenPRDs(prdFile)) :
         sel' = SelectNext(prdFile, sorted)
    /\ rpc' = "save"
    /\ UNCHANGED <<doc, loadErr, firstLoad, queried, prevDoc, prdFile>>
    /\ storeFrame

\* prd.Save, os.WriteFile: the file is opened with O_TRUNC, which empties it.
SaveOpen ==
    /\ rpc = "save"
    /\ prevDoc' = doc
    /\ doc' = EmptyFile
    /\ rpc' = "saveWrite"
    /\ UNCHANGED <<loadErr, firstLoad, queried, sel, prdFile>>
    /\ storeFrame

\* prd.Save, os.WriteFile: the marshalled data is written and the file closed.
SaveWrite ==
    /\ rpc = "saveWrite"
    /\ doc' = MarshalIndent(prdFile)
    /\ rpc' = "reload"
    /\ UNCHANGED <<loadErr, firstLoad, queried, sel, prevDoc, prdFile>>
    /\ storeFrame

\* The process dies during prd.Save: before the file is opened, between the
\* truncation and the write, or in the middle of the write, which leaves a
\* prefix of the data (no JSON document) in the file.
Crash ==
    /\ rpc \in {"save", "saveWrite"}
    /\ IF rpc = "save"
       THEN prevDoc' = doc /\ UNCHANGED doc
       ELSE /\ doc' \in {doc, [shape |-> "invalid", prds |-> << >>]}
            /\ UNCHANGED prevDoc
    /\ rpc' = "crashed"
    /\ UNCHANGED <<loadErr, firstLoad, queried, sel, prdFile>>
    /\ storeFrame

\* prd.Load of what prd.Save wrote.
ReloadFile ==
    /\ rpc = "reload"
    /\ loadErr' = Unmarshal(doc).err
    /\ prdFile' = Unmarshal(doc).prds
    /\ rpc' = "reloaded"
    /\ UNCHANGED <<doc, firstLoad, queried, sel, prevDoc>>
    /\ storeFrame

NextStore ==
    \/ LoadFile /\ UNCHANGED handlerVars /\ UNCHANGED streamVars /\ UNCHANGED signalVars /\ UNCHANGED idleVars /\ UNCHANGED resultVars /\ UNCHANGED configVars
    \/ Queries /\ UNCHANGED handlerVars /\ UNCHANGED streamVars /\ UNCHANGED signalVars /\ UNCHANGED idleVars /\ UNCHANGED resultVars /\ UNCHANGED configVars
    \/ CallSelectNext /\ UNCHANGED handlerVars /\ UNCHANGED streamVars /\ UNCHANGED signalVars /\ UNCHANGED idleVars /\ UNCHANGED resultVars /\ UNCHANGED configVars
    \/ SaveOpen /\ UNCHANGED handlerVars /\ UNCHANGED streamVars /\ UNCHANGED signalVars /\ UNCHANGED idleVars /\ UNCHANGED resultVars /\ UNCHANGED configVars
    \/ SaveWrite /\ UNCHANGED handlerVars /\ UNCHANGED streamVars /\ UNCHANGED signalVars /\ UNCHANGED idleVars /\ UNCHANGED resultVars /\ UNCHANGED configVars
    \/ Crash /\ UNCHANGED handlerVars /\ UNCHANGED streamVars /\ UNCHANGED signalVars /\ UNCHANGED idleVars /\ UNCHANGED resultVars /\ UNCHANGED configVars
    \/ ReloadFile /\ UNCHANGED handlerVars /\ UNCHANGED streamVars /\ UNCHANGED signalVars /\ UNCHANGED idleVars /\ UNCHANGED resultVars /\ UNCHANGED configVars

SpecStore == InitStore /\ [][NextStore]_vars

(***************************************************************************)
(* SpecPhase: what planner.Run, builder.Run and reviewer.Run do with the   *)
(* signals once runClaude has returned.  disk is prd.json as the agent     *)
(* left it, prdFile the store the controller was called with.              *)
(***************************************************************************)
\* The PRD ids of the signals of one type, in the order of the signals.
IDsOf(signals, type) ==
    [k \in 1..Len(SelectSeq(signals, LAMBDA sg : sg.Type = type)) |->
        SelectSeq(signals, LAMBDA sg : sg.Type = type)[k].PRDID]

\* planner.Run after runClaude: the switch over the signals.
PlannerResult(signals) ==
    LET done == SelectSeq(signals, LAMBDA sg : sg.Type = SignalPlanComplete)
        skip == SelectSeq(signals, LAMBDA sg : sg.Type = SignalPlanSkipped)
    IN  [phase |-> "planner", err |-> FALSE,
         PRDID |-> IF Len(done) > 0 THEN done[Len(done)].PRDID ELSE "",
         PlanPath |-> IF Len(done) > 0 THEN GetPlanPath(done[Len(done)].PRDID)
                      ELSE "",
         Signals |-> signals,
         Skipped |-> Len(skip) > 0,
         SkipReason |-> IF Len(skip) > 0 THEN skip[Len(skip)].Details ELSE ""]

\* planner.Run when ShouldRunPlanner is false: no agent is run.
PlannerSkipped(prds) ==
    [phase |-> "planner", err |-> FALSE, PRDID |-> "", PlanPath |-> "",
     Signals |-> << >>, Skipped |-> TRUE,
     SkipReason |-> IF Len(GetActivePRDs(prds)) > 0 THEN "active PRD exists"
                    ELSE "no open PRDs"]

\* builder.Run returns runClaude's result: the handler's signals.
BuilderResult(signals) ==
    [phase |-> "builder", err |-> FALSE, Signals |-> signals]

\* Mutant: the LOOP_RISK case is missing from the switch.
ReviewerResult_noLoopRisk(signals) ==
    [phase |-> "reviewer", err |-> FALSE,
     Verified |-> IDsOf(signals, SignalVerified),
     Rejected |-> IDsOf(signals, SignalRejected),
     LoopRisk |-> << >>,
     PlanUpdated |-> IDsOf(signals, SignalPlanUpdated)]

\* reviewer.Run after runClaude: the switch over the signals.
ReviewerResult(signals) ==
    [phase |-> "reviewer", err |-> FALSE,
     Verified |-> IDsOf(signals, SignalVerified),
     Rejected |-> IDsOf(signals, SignalRejected),
     LoopRisk |-> IDsOf(signals, SignalLoopRisk),
     PlanUpdated |-> IDsOf(signals, SignalPlanUpdated)]

\* The signals the handler can have collected: those that carry a reason and
\* those that carry a PRD id.
HandlerSignals ==
    { Signal(t, "why", "") :
        t \in {SignalPRDComplete, SignalBailout, SignalBlocked,
               SignalAnalysisComplete, SignalPlanSkipped} }
    \cup { Signal(t, "", id) :
             t \in {SignalVerified, SignalRejected, SignalLoopRisk,
                    SignalPlanComplete, SignalPlanUpdated},
             id \in {"prd-1", "prd-2"} }

SignalLists == UNION { [1..n -> HandlerSignals] : n \in 0..MaxSignals }

NoReport == [phase |-> "none"]

InitPhase ==
    /\ prdFile \in PRDFileData
    /\ phaseResult \in { Returned(ph, sg) :
                           ph \in {"planner", "builder", "reviewer"},
                           sg \in SignalLists }
    /\ disk \in IF phaseResult.phase = "planner" THEN PlannerAgent(prdFile)
                ELSE IF phaseResult.phase = "reviewer" THEN ReviewerAgent(prdFile)
                ELSE {prdFile}
    /\ start = disk
    /\ rpc = "process"
    /\ report = NoReport
    /\ NoConfig
    /\ diskBad = FALSE
    /\ iterations = 0
    /\ iter = 0
    /\ phases = << >>
    /\ iterIdle = TRUE
    /\ idleRun = 0
    /\ bailed = NoBailout
    /\ chunk = << >>
    /\ iterSignals = {}
    /\ doc = [shape |-> "object", prds |-> << >>]
    /\ loadErr = FALSE
    /\ firstLoad = << >>
    /\ queried = NoQuery
    /\ sel = 0
    /\ prevDoc = [shape |-> "object", prds |-> << >>]
    /\ h = NewConsoleHandlerWithTerminate(0, FALSE)
    /\ ncalls = 0
    /\ lastCall = NoCall
    /\ reported = NoReports
    /\ pc = "none"
    /\ emitted = 0
    /\ consumed = 0
    /\ proc = "none"
    /\ ret = "none"
    /\ ctxCancelled = FALSE
    /\ readerClosed = FALSE

phaseFrame ==
    UNCHANGED <<disk, diskBad, prdFile, iterations, iter, start, phaseResult,
                phases, iterIdle, idleRun, bailed>>

\* planner.Run: skipped without an agent, or the result made of the signals.
PlannerProcess ==
    /\ rpc = "process"
    /\ phaseResult.phase = "planner"
    /\ report' = IF ~ShouldRunPlanner(prdFile) THEN PlannerSkipped(prdFile)
                 ELSE PlannerResult(phaseResult.Signals)
    /\ rpc' = "processed"
    /\ phaseFrame

\* builder.Run: an error without an Active PRD, else runClaude's result.
BuilderProcess ==
    /\ rpc = "process"
    /\ phaseResult.phase = "builder"
    /\ report' = IF Len(GetActivePRDs(prdFile)) = 0
                 THEN [phase |-> "builder", err |-> TRUE, Signals |-> << >>]
                 ELSE BuilderResult(phaseResult.Signals)
    /\ rpc' = "processed"
    /\ phaseFrame

\* reviewer.Run: the result made of the signals.
ReviewerProcess ==
    /\ rpc = "process"
    /\ phaseResult.phase = "reviewer"
    /\ report' = ReviewerResult(phaseResult.Signals)
    /\ rpc' = "processed"
    /\ phaseFrame

NextPhase ==
    \/ PlannerProcess /\ UNCHANGED handlerVars /\ UNCHANGED streamVars /\ UNCHANGED signalVars /\ UNCHANGED idleVars /\ UNCHANGED storeVars /\ UNCHANGED configVars
    \/ BuilderProcess /\ UNCHANGED handlerVars /\ UNCHANGED streamVars /\ UNCHANGED signalVars /\ UNCHANGED idleVars /\ UNCHANGED storeVars /\ UNCHANGED configVars
    \/ ReviewerProcess /\ UNCHANGED handlerVars /\ UNCHANGED streamVars /\ UNCHANGED signalVars /\ UNCHANGED idleVars /\ UNCHANGED storeVars /\ UNCHANGED configVars

SpecPhase == InitPhase /\ [][NextPhase]_vars

(***************************************************************************)
(* SpecConfig: internal/config and the head of runRun.  The configuration  *)
(* is loaded, the flags are applied, the result is validated, and a phase  *)
(* hands its ceiling to its handler.                                       *)
(***************************************************************************)
MinTokens == 10000
MaxTokens == 200000
\* planner.TokenThreshold: the planner's ceiling is this constant.
TokenThreshold == 80000

\* A Config: the MaxTokens of the three phases and of Global; validModels
\* says that every model named is haiku, sonnet or opus.
Config(planner, builder, reviewer, global, validModels) ==
    [Planner |-> [MaxTokens |-> planner],
     Builder |-> [MaxTokens |-> builder],
     Reviewer |-> [MaxTokens |-> reviewer],
     Global |-> [MaxTokens |-> global],
     validModels |-> validModels]

DefaultConfig == Config(80000, 100000, 80000, 100000, TRUE)

\* mergeConfigs: a value of the override that is not zero (not empty) wins.
mergeConfigs(base, override) ==
    [Planner |-> [MaxTokens |-> IF override.Planner.MaxTokens # 0
                               THEN override.Planner.MaxTokens
                               ELSE base.Planner.MaxTokens],
     Builder |-> [MaxTokens |-> IF override.Builder.MaxTokens # 0
                               THEN override.Builder.MaxTokens
                               ELSE base.Builder.MaxTokens],
     Reviewer |-> [MaxTokens |-> IF override.Reviewer.MaxTokens # 0
                                THEN override.Reviewer.MaxTokens
                                ELSE base.Reviewer.MaxTokens],
     Global |-> [MaxTokens |-> IF override.Global.MaxTokens # 0
                              THEN override.Global.MaxTokens
                              ELSE base.Global.MaxTokens],
     validModels |-> base.validModels /\ override.validModels]

\* A MaxTokens that Validate refuses.
OutOfRange(n) == n # 0 /\ (n < MinTokens \/ n > MaxTokens)

\* Mutant: Validate checks the models only.
Validate_noRange(c) == ~c.validModels

\* Config.Validate: TRUE when it returns an error.
Validate(c) ==
    \/ ~c.validModels
    \/ OutOfRange(c.Global.MaxTokens)
    \/ OutOfRange(c.Planner.MaxTokens)
    \/ OutOfRange(c.Builder.MaxTokens)
    \/ OutOfRange(c.Reviewer.MaxTokens)

\* config.Load: the defaults, the project file merged over them when it can
\* be read and parsed, then Validate.
LoadConfig(file) ==
    LET merged == IF file.present THEN mergeConfigs(DefaultConfig, file.cfg)
                  ELSE DefaultConfig
    IN  [err |-> Validate(merged), cfg |-> merged]

\* Config.ApplyOverrides: a token flag greater than 0 replaces the value.
ApplyOverrides(c, fl) ==
    [c EXCEPT !.Planner.MaxTokens = IF fl.plannerTokens > 0 THEN fl.plannerTokens ELSE @,
              !.Builder.MaxTokens = IF fl.builderTokens > 0 THEN fl.builderTokens ELSE @,
              !.Reviewer.MaxTokens = IF fl.reviewerTokens > 0 THEN fl.reviewerTokens ELSE @,
              !.validModels = @ /\ fl.validModels]

\* Config.GetPhaseConfig(phase).MaxTokens: the global value when the phase
\* has none.
GetPhaseConfig(c, phase) ==
    LET own == IF phase = "planner" THEN c.Planner.MaxTokens
               ELSE IF phase = "builder" THEN c.Builder.MaxTokens
               ELSE c.Reviewer.MaxTokens
    IN  [MaxTokens |-> IF own = 0 THEN c.Global.MaxTokens ELSE own]

\* The values a maxTokens of config.yaml and a --*-max-tokens flag are drawn
\* from.
FileGlobalTokens == {0, 9999, 150000}
FilePhaseTokens == {0, -1, 50000, 200001}
FlagTokens == {0, -1, 9999, 200000}

ConfigFiles ==
    { [present |-> FALSE, cfg |-> DefaultConfig] } \cup
    { [present |-> TRUE, cfg |-> Config(p, b, r, g, vm)] :
        p \in FilePhaseTokens, b \in FilePhaseTokens, r \in FilePhaseTokens,
        g \in FileGlobalTokens, vm \in BOOLEAN }

Flags ==
    [plannerTokens : FlagTokens, builderTokens : FlagTokens,
     reviewerTokens : FlagTokens, validModels : BOOLEAN]

NoCeiling == [phase |-> "none", MaxTokens |-> 0]

InitConfig ==
    /\ cfgFile \in ConfigFiles
    /\ flags \in Flags
    /\ cfg = [loaded |-> FALSE]
    /\ ceiling = NoCeiling
    /\ rpc = "config"
    /\ disk = << >>
    /\ diskBad = FALSE
    /\ prdFile = << >>
    /\ iterations = 0
    /\ iter = 0
    /\ start = << >>
    /\ phaseResult = NoResult
    /\ phases = << >>
    /\ iterIdle = TRUE
    /\ idleRun = 0
    /\ bailed = NoBailout
    /\ chunk = << >>
    /\ iterSignals = {}
    /\ NoStore
    /\ h = NewConsoleHandlerWithTerminate(0, FALSE)
    /\ ncalls = 0
    /\ lastCall = NoCall
    /\ reported = NoReports
    /\ pc = "none"
    /\ emitted = 0
    /\ consumed = 0
    /\ proc = "none"
    /\ ret = "none"
    /\ ctxCancelled = FALSE
    /\ readerClosed = FALSE

configFrame ==
    UNCHANGED <<disk, diskBad, prdFile, iterations, iter, start, phaseResult,
                phases, iterIdle, idleRun, bailed>>

\* cfg, err := config.Load(cwd); on an error the defaults are used.
ConfigLoad ==
    /\ rpc = "config"
    /\ cfg' = IF LoadConfig(cfgFile).err THEN DefaultConfig
              ELSE LoadConfig(cfgFile).cfg
    /\ rpc' = "overrides"
    /\ UNCHANGED <<cfgFile, flags, ceiling>>
    /\ configFrame

\* cfg.ApplyOverrides(...); cfg.Validate(): an error ends the run.
ConfigOverrides ==
    /\ rpc = "overrides"
    /\ cfg' = ApplyOverrides(cfg, flags)
    /\ rpc' = IF Validate(cfg') THEN "invalid" ELSE "loop"
    /\ UNCHANGED <<cfgFile, flags, ceiling>>
    /\ configFrame

\* planner.runClaude: NewConsoleHandlerWithTerminate(TokenThreshold, ...)
StartPlanner ==
    /\ rpc = "loop"
    /\ ceiling' = [phase |-> "planner", MaxTokens |-> TokenThreshold]
    /\ rpc' = "started"
    /\ UNCHANGED <<cfgFile, flags, cfg>>
    /\ configFrame

\* builder.runClaude: NewConsoleHandlerWithTerminate(phaseConfig.MaxTokens, ...)
StartBuilder ==
    /\ rpc = "loop"
    /\ ceiling' = [phase |-> "builder",
                   MaxTokens |-> GetPhaseConfig(cfg, "builder").MaxTokens]
    /\ rpc' = "started"
    /\ UNCHANGED <<cfgFile, flags, cfg>>
    /\ configFrame

\* reviewer.runClaude: NewConsoleHandlerWithTerminate(phaseConfig.MaxTokens, ...)
StartReviewer ==
    /\ rpc = "loop"
    /\ ceiling' = [phase |-> "reviewer",
                   MaxTokens |-> GetPhaseConfig(cfg, "reviewer").MaxTokens]
    /\ rpc' = "started"
    /\ UNCHANGED <<cfgFile, flags, cfg>>
    /\ configFrame

NextConfig ==
    \/ ConfigLoad /\ UNCHANGED handlerVars /\ UNCHANGED streamVars /\ UNCHANGED signalVars /\ UNCHANGED idleVars /\ UNCHANGED storeVars /\ UNCHANGED resultVars
    \/ ConfigOverrides /\ UNCHANGED handlerVars /\ UNCHANGED streamVars /\ UNCHANGED signalVars /\ UNCHANGED idleVars /\ UNCHANGED storeVars /\ UNCHANGED resultVars
    \/ StartPlanner /\ UNCHANGED handlerVars /\ UNCHANGED streamVars /\ UNCHANGED signalVars /\ UNCHANGED idleVars /\ UNCHANGED storeVars /\ UNCHANGED resultVars
    \/ StartBuilder /\ UNCHANGED handlerVars /\ UNCHANGED streamVars /\ UNCHANGED signalVars /\ UNCHANGED idleVars /\ UNCHANGED storeVars /\ UNCHANGED resultVars
    \/ StartReviewer /\ UNCHANGED handlerVars /\ UNCHANGED streamVars /\ UNCHANGED signalVars /\ UNCHANGED idleVars /\ UNCHANGED storeVars /\ UNCHANGED resultVars

SpecConfig == InitConfig /\ [][NextConfig]_vars





(***************************************************************************)
(* Properties of the handler and of the stream driver.                     *)
(***************************************************************************)
IsCall == ncalls' = ncalls + 1
IsUsageCall == IsCall /\ lastCall'.op \in {"OnTokenUsage", "OnTokenUsageCumulative"}

TerminalKinds ==
    { "PRD_COMPLETE", "BAILOUT", "BLOCKED", "ANALYSIS_COMPLETE",
      "PLAN_COMPLETE", "PLAN_SKIPPED" }

\* C3: at every usage snapshot after which TotalTokens >= the ceiling the
\* handler sets shouldStop, appends BAILOUT "token limit exceeded" and calls
\* the cancellation callback (the first such snapshot included); at a
\* snapshot after which TotalTokens is below the ceiling it does none of the
\* three: the flag stays what it was (false when no terminal signal was seen).
C3_BudgetTermination ==
    [][ IsUsageCall =>
          IF h'.tokenStats.TotalTokens >= h.tokenThreshold
          THEN /\ h'.shouldStop
               /\ h'.signals = Append(h.signals,
                                      Signal("BAILOUT", "token limit exceeded", ""))
               /\ h'.cancelCalls =
                    h.cancelCalls + (IF h.hasOnTerminate THEN 1 ELSE 0)
          ELSE /\ h'.shouldStop = h.shouldStop
               /\ h'.signals = h.signals
               /\ h'.cancelCalls = h.cancelCalls
               /\ (\A i \in 1..Len(h.signals) : h.signals[i].Type \notin TerminalKinds)
                    => ~h'.shouldStop ]_vars

\* C3 witness: the third snapshot is the first to reach the ceiling.
C3_Witness ==
    /\ lastCall.op = "OnTokenUsage"
    /\ reported.usage = 3
    /\ h.hasOnTerminate
    /\ h.tokenStats.TotalTokens >= h.tokenThreshold
    /\ h.shouldStop
    /\ h.cancelCalls = 1
    /\ h.signals = << Signal("BAILOUT", "token limit exceeded", "") >>

\* C6: OnSignal sets the termination flag exactly for the six terminal
\* kinds (VERIFIED, REJECTED, LOOP_RISK and PLAN_UPDATED leave it as it was),
\* and no handler call ever resets the flag.
C6_TerminalSignals ==
    [][ /\ (IsCall /\ lastCall'.op = "OnSignal") =>
             (h'.shouldStop = (h.shouldStop \/ lastCall'.signal.Type \in TerminalKinds))
        /\ h.shouldStop => h'.shouldStop ]_vars

\* C6 witness: VERIFIED was observed without stopping, then PLAN_SKIPPED stops.
C6_Witness ==
    /\ lastCall.op = "OnSignal"
    /\ Len(h.signals) = 2
    /\ h.signals[1].Type = "VERIFIED"
    /\ h.signals[2].Type = "PLAN_SKIPPED"
    /\ h.shouldStop
    /\ h.tokenStats.TotalTokens < h.tokenThreshold

\* C7: after any sequence of OnTokenUsage snapshots InputTokens is the sum
\* of the reported input tokens and OutputTokens the sum of the reported
\* output tokens.
C7_SumOfInputs ==
    reported.cumulative = 0 =>
        /\ h.tokenStats.InputTokens = reported.sumIn
        /\ h.tokenStats.OutputTokens = reported.sumOut

C4_CancelExactlyOnce ==
    (pc \in {"returned", "done"} /\ h.shouldStop) => h.cancelCalls = 1

\* C5: once the termination flag is set, nothing more reaches the handler:
\* its signals, captured text, token counts and tool count stay as they are.
C5_NothingAfterTermination ==
    [][ h.shouldStop =>
          /\ h'.signals = h.signals
          /\ h'.output = h.output
          /\ h'.tokenStats = h.tokenStats
          /\ h'.toolCount = h.toolCount ]_vars

\* C5 witness: ParseStream has returned on termination while a line the
\* subprocess has written is still unread.
C5_Witness ==
    /\ pc = "returned"
    /\ h.shouldStop
    /\ consumed < emitted
    /\ proc = "running"

\* C9: the three token counts are non-negative and none decreases from one
\* handler update to the next.
C9_TokensMonotone ==
    [][ /\ h'.tokenStats.InputTokens >= h.tokenStats.InputTokens
        /\ h'.tokenStats.OutputTokens >= h.tokenStats.OutputTokens
        /\ h'.tokenStats.TotalTokens >= h.tokenStats.TotalTokens
        /\ h'.tokenStats.InputTokens >= 0
        /\ h'.tokenStats.OutputTokens >= 0
        /\ h'.tokenStats.TotalTokens >= 0 ]_vars

\* C10: TotalTokens is InputTokens + OutputTokens, and it holds no
\* cache-read tokens: it is at most the largest input_tokens plus the sum
\* of the output_tokens the stream reported.
C10_TotalIsInputPlusOutput ==
    /\ h.tokenStats.TotalTokens = h.tokenStats.InputTokens + h.tokenStats.OutputTokens
    /\ h.tokenStats.TotalTokens <= reported.maxIn + reported.sumOut

\* C10 witness: usage with cache-read tokens has been counted.
C10_Witness ==
    /\ reported.usage >= 2
    /\ reported.cache > 0
    /\ h.tokenStats.TotalTokens > 0
    /\ h.tokenStats.TotalTokens < h.tokenThreshold


(***************************************************************************)
(* Properties of the iteration loop.                                       *)
(***************************************************************************)
StatusOf(p) ==
    IF p.Passes.Value = [kind |-> "bool", b |-> FALSE, s |-> ""] THEN "Open"
    ELSE IF p.Passes.Value = [kind |-> "string", b |-> FALSE, s |-> "active"] THEN "Active"
    ELSE IF p.Passes.Value = [kind |-> "string", b |-> FALSE, s |-> "pending"] THEN "Pending"
    ELSE "Complete"

CountOf(store, status) ==
    Cardinality({ i \in DOMAIN store : StatusOf(store[i]) = status })

\* C1: in a run that starts from a store with at most one Active record, the
\* Planner is about to be invoked only when no record is Active and at least
\* one is Open, and right after its invocation at most one record is Active.
C1_AtMostOneActive ==
    CountOf(start, "Active") <= 1 =>
        /\ rpc = "plannerRun" =>
              CountOf(disk, "Active") = 0 /\ CountOf(disk, "Open") >= 1
        /\ rpc = "plannerReload" => CountOf(disk, "Active") <= 1

\* The run started with one Active record, the Planner was not invoked
\* while it was Active, and in the second iteration activated a record.
C1_Witness ==
    /\ rpc = "plannerReload"
    /\ iter = 2
    /\ CountOf(start, "Active") = 1
    /\ CountOf(disk, "Active") = 1

AllowedTransitions ==
    { <<"Open", "Active">>, <<"Active", "Pending">>,
      <<"Pending", "Complete">>, <<"Pending", "Open">> }

Letters == {"a", "b", "x"}

ArityOf(kind) ==
    IF kind \in {"PRD_COMPLETE", "ANALYSIS_COMPLETE"} THEN 0
    ELSE IF kind = "REJECTED" THEN 2
    ELSE 1

LitAt(t, i, lit) ==
    /\ i + Len(lit) - 1 <= Len(t)
    /\ \A k \in 1..Len(lit) : t[i + k - 1] = lit[k]

\* The ends of the non-empty runs of letters that start at s and are
\* followed by lit (at most one).
RunEnds(t, s, lit) ==
    { e \in s..Len(t) : (\A k \in s..e : t[k] \in Letters) /\ LitAt(t, e + 1, lit) }

RECURSIVE StrOf(_)
StrOf(run) == IF run = << >> THEN "" ELSE Head(run) \o StrOf(Tail(run))

\* The signals of the well-formed markers that start at position i of t.
MarkersAt(t, i) ==
    IF ~(LitAt(t, i, <<"#", "#", "#">>) /\ i + 3 <= Len(t)) THEN {}
    ELSE LET kind == t[i + 3]
         IN  IF ArityOf(kind) = 0
             THEN IF kind \in {"PRD_COMPLETE", "ANALYSIS_COMPLETE"}
                     /\ LitAt(t, i + 4, <<"#", "#", "#">>)
                  THEN { [Type |-> kind, Details |-> "", PRDID |-> ""] }
                  ELSE {}
             ELSE IF ~LitAt(t, i + 4, <<":">>) THEN {}
             ELSE IF ArityOf(kind) = 1
             THEN { IF kind \in {"BAILOUT", "BLOCKED", "PLAN_SKIPPED"}
                    THEN [Type |-> kind, Details |-> StrOf(SubSeq(t, i + 5, e)),
                          PRDID |-> ""]
                    ELSE [Type |-> kind, Details |-> "",
                          PRDID |-> StrOf(SubSeq(t, i + 5, e))] :
                    e \in { e0 \in RunEnds(t, i + 5, <<"#", "#", "#">>) :
                              kind \in SignalTypes } }
             ELSE UNION { { [Type |-> kind,
                             Details |-> StrOf(SubSeq(t, e1 + 2, e2)),
                             PRDID |-> StrOf(SubSeq(t, i + 5, e1))] :
                            e2 \in RunEnds(t, e1 + 2, <<"#", "#", "#">>) } :
                          e1 \in RunEnds(t, i + 5, <<":">>) }

\* The signals of all well-formed markers of t, in text order.
RECURSIVE MarkersFrom(_, _)
MarkersFrom(t, i) ==
    IF i > Len(t) THEN << >>
    ELSE (IF MarkersAt(t, i) = {} THEN << >>
          ELSE << CHOOSE m \in MarkersAt(t, i) : TRUE >>)
         \o MarkersFrom(t, i + 1)

OfKind(sigs, kind) == SelectSeq(sigs, LAMBDA sg : sg.Type = kind)

CountIn(sigs, sg) == Cardinality({ i \in DOMAIN sigs : sigs[i] = sg })

RECURSIVE IsSubsequence(_, _)
IsSubsequence(a, b) ==
    IF a = << >> THEN TRUE
    ELSE IF b = << >> THEN FALSE
    ELSE IF Head(a) = Head(b) THEN IsSubsequence(Tail(a), Tail(b))
    ELSE IsSubsequence(a, Tail(b))

\* C11: for each repeatable kind, every well-formed marker of that kind in
\* the text has its own signal in the phaseResult: the markers of the kind, in
\* text order and with duplicates, are found in that order among the signals
\* of the kind.
C11_AllOccurrences ==
    pc = "scanned" =>
        \A kind \in {"VERIFIED", "REJECTED", "LOOP_RISK", "PLAN_COMPLETE", "PLAN_UPDATED"} :
            IsSubsequence(OfKind(MarkersFrom(chunk, 1), kind), OfKind(h.signals, kind))

\* C12: every signal comes from a well-formed marker of the text; a marker
\* without closing ### or with the wrong number of arguments gives none.
C12_MalformedIgnored ==
    pc = "scanned" =>
        \A k \in DOMAIN h.signals :
            \E i \in 1..Len(chunk) : h.signals[k] \in MarkersAt(chunk, i)

\* C13: when the signals are those of the well-formed markers of the text,
\* they are in the order in which the markers occur in the text.
C13_EmissionOrder ==
    (/\ pc = "scanned"
     /\ Len(h.signals) = Len(MarkersFrom(chunk, 1))
     /\ \A k \in DOMAIN h.signals :
           CountIn(h.signals, h.signals[k]) = CountIn(MarkersFrom(chunk, 1), h.signals[k]))
        => h.signals = MarkersFrom(chunk, 1)


Signalled(phase, type, i) ==
    /\ phaseResult'.phase = phase
    /\ phaseResult' # phaseResult
    /\ \E k \in 1..Len(phaseResult'.Signals) :
         /\ phaseResult'.Signals[k].Type = type
         /\ phaseResult'.Signals[k].PRDID = disk[i].ID

\* C15: when the Reviewer's output holds VERIFIED:id for a Pending record,
\* the store afterwards has that record Complete with no plan reference;
\* when it holds REJECTED:id:reason for a Pending record, the store has
\* that record Open and its notes hold the reason.
C15_ReviewerSignalsApplied ==
    [][ \A i \in 1..Len(disk) :
          IsPending(disk[i].Passes) /\ rpc = "reviewerRun" =>
            /\ Signalled("reviewer", SignalVerified, i) =>
                 /\ ~diskBad'
                 /\ IsTrue(disk'[i].Passes)
                 /\ disk'[i].ActivePlan = ""
            /\ Signalled("reviewer", SignalRejected, i) =>
                 /\ ~diskBad'
                 /\ IsFalse(disk'[i].Passes)
                 /\ disk'[i].Notes = RejectReason ]_vars

\* C16: from a store with an Open record and no Active record, a Planner
\* invocation whose output holds PLAN_COMPLETE for that record ends with
\* the record Active in the store, with a non-empty plan reference.
C16_PlanCompleteActivates ==
    [][ \A i \in 1..Len(disk) :
          /\ rpc = "plannerRun"
          /\ IsFalse(disk[i].Passes)
          /\ Len(GetActivePRDs(disk)) = 0
          /\ Signalled("planner", SignalPlanComplete, i)
          => /\ ~diskBad'
             /\ IsActive(disk'[i].Passes)
             /\ disk'[i].ActivePlan # "" ]_vars

\* C17: when a Builder invocation's output holds PRD_COMPLETE, the Active
\* record it was given is Pending in the store afterwards.
C17_PRDCompletePends ==
    [][ /\ rpc = "builderRun"
        /\ phaseResult'.phase = "builder"
        /\ \E k \in 1..Len(phaseResult'.Signals) :
             phaseResult'.Signals[k].Type = SignalPRDComplete
        => /\ ~diskBad'
           /\ \A i \in 1..Len(disk) :
                disk[i].ID = GetActivePRDs(prdFile)[1].ID
                  => IsPending(disk'[i].Passes) ]_vars

\* ---------------------------------------------------------------------
\* The iteration loop
\* ---------------------------------------------------------------------
\* This step is a phase invocation that returned an error.
PhaseFailed(phase) ==
    /\ phaseResult' # phaseResult
    /\ phaseResult'.phase = phase
    /\ phaseResult'.err

\* C18: an error returned by a phase does not abort the run: when a later
\* phase of the same iteration has its precondition, the run stays in that
\* iteration and goes on to the later phases; after the last phase it goes
\* on to the next iteration.
C18_PhaseErrorsIsolated ==
    [][ /\ PhaseFailed("planner") /\ (ShouldRunBuilder(disk') \/ ShouldRunReviewer(disk'))
           => iter' = iter /\ rpc' \in {"plannerReload", "builderCheck"}
        /\ PhaseFailed("builder") /\ ShouldRunReviewer(disk')
           => iter' = iter /\ rpc' \in {"builderReload", "reviewerCheck"}
        /\ PhaseFailed("reviewer")
           => iter' = iter + 1 /\ rpc' = "iterStart" ]_vars

\* The positions of runRun where prd.Load is called.
LoadPoints == {"iterStart", "plannerReload", "builderReload", "final"}

\* C19: when loading the store fails, at the start of an iteration or at a
\* reload between phases, the run stops with an error: the store in memory
\* is not replaced, and no phase or iteration follows.
C19_LoadErrorStopsRun ==
    [][ /\ rpc # "error"
        /\ (rpc \in LoadPoints /\ diskBad /\ (rpc = "iterStart" => iter <= iterations))
             => /\ rpc' = "error"
                /\ UNCHANGED <<prdFile, disk, iter>> ]_vars

\* A reload failed in the second iteration, after a phase ran on a good store.
C19_Witness ==
    /\ rpc = "error"
    /\ diskBad
    /\ iter = 2
    /\ phases # << >>
    /\ prdFile # << >>

PhaseRank(phase) ==
    CASE phase = "planner"  -> 1
      [] phase = "builder"  -> 2
      [] phase = "reviewer" -> 3

\* The positions where a phase's run decision is taken or the phase runs.
PhasePoints == {"plannerCheck", "plannerRun", "builderCheck", "builderRun",
                "reviewerCheck", "reviewerRun"}

\* C20: within an iteration the phases are invoked in the order Planner,
\* Builder, Reviewer, each at most once, and wherever a phase's run decision
\* is taken or the phase is given its input, the store in memory is the
\* store as the preceding phase left it on disk.
C20_PhaseOrderFreshStore ==
    /\ \A a, b \in 1..Len(phases) :
         a < b => PhaseRank(phases[a]) < PhaseRank(phases[b])
    /\ rpc = "plannerRun" => phases = << >>
    /\ rpc = "builderRun" => \A a \in 1..Len(phases) : phases[a] = "planner"
    /\ rpc = "reviewerRun" => \A a \in 1..Len(phases) : phases[a] # "reviewer"
    /\ rpc \in PhasePoints => ~diskBad /\ prdFile = disk

\* The reviewer is about to run after the planner and the builder both ran
\* and changed the store.
C20_Witness ==
    /\ rpc = "reviewerRun"
    /\ phases = <<"planner", "builder">>
    /\ Len(GetPendingPRDs(prdFile)) > Len(GetPendingPRDs(start))
    /\ prdFile = disk

\* ---------------------------------------------------------------------
\* Idle iterations and the end of the loop
\* ---------------------------------------------------------------------
\* The number of consecutive idle iterations after which the run is to stop.
EarlyExitThreshold == 2

\* C21: the loop halts as soon as EarlyExitThreshold consecutive iterations
\* were idle: no phase is reached after that many idle iterations in a row.
C21_EarlyExit ==
    rpc \in PhasePoints => idleRun < EarlyExitThreshold

\* The signal types that are productive according to the claim.
Productive ==
    { SignalVerified, SignalRejected, SignalPlanComplete, SignalPlanUpdated,
      SignalPRDComplete }

\* C22: an iteration is classified idle exactly when none of its signals is
\* VERIFIED, REJECTED, PLAN_COMPLETE, PLAN_UPDATED or PRD_COMPLETE.
C22_IdleIffNoProductive ==
    rpc = "classified" => (iterIdle <=> iterSignals \cap Productive = {})

\* The record with this id is Active in the store.
ActiveIn(store, id) ==
    \E i \in 1..Len(store) : store[i].ID = id /\ IsActive(store[i].Passes)

C24_StopsWhenNoOpen ==
    rpc = "plannerCheck" =>
        /\ iter <= iterations
        /\ Len(GetOpenPRDs(prdFile)) > 0

\* C26: the builder is invoked only when exactly one record is Active, and it
\* works on that record.
C26_BuilderSingleActive ==
    rpc = "builderRun" =>
        /\ Len(GetActivePRDs(prdFile)) = 1
        /\ \A i \in 1..Len(prdFile) :
               IsActive(prdFile[i].Passes) =>
                   prdFile[i].ID = GetActivePRDs(prdFile)[1].ID

(***************************************************************************)
(* The store: loading, queries, selection and the round trip.              *)
(***************************************************************************)
\* The state a status value stands for, "none" when it stands for none.
StateOf(passes) ==
    IF passes.Value = BoolValue(FALSE) THEN "Open"
    ELSE IF passes.Value = StringValue("active") THEN "Active"
    ELSE IF passes.Value = StringValue("pending") THEN "Pending"
    ELSE IF passes.Value = BoolValue(TRUE) THEN "Complete"
    ELSE "none"

\* The indexes of the records of a store that are in the given state.
InState(prds, state) ==
    { i \in 1..Len(prds) : StateOf(prds[i].Passes) = state }

\* C25: SelectNext returns nil exactly when the store has no Open record;
\* otherwise it returns an Open record of the lowest priority value, the first
\* in store order among those that share it.
C25_SelectNextLowestFirst ==
    rpc = "save" =>
        /\ sel = 0 <=> InState(prdFile, "Open") = {}
        /\ sel # 0 =>
             /\ sel \in InState(prdFile, "Open")
             /\ \A i \in InState(prdFile, "Open") :
                    /\ prdFile[sel].Priority <= prdFile[i].Priority
                    /\ prdFile[i].Priority = prdFile[sel].Priority => sel <= i

\* The four JSON values that are a status.
StatusValues ==
    { JBool(FALSE), JString("active"), JString("pending"), JBool(TRUE) }

\* C27: every record of a successfully loaded store is in exactly one of the
\* four states, exactly one of IsFalse/IsActive/IsPending/IsTrue holding for
\* it, and a document with a record whose status is anything else fails to
\* load.
C27_FourStatesOrError ==
    rpc \in {"query", "failed"} =>
        /\ ~loadErr =>
             \A i \in 1..Len(prdFile) :
                 /\ StateOf(prdFile[i].Passes) # "none"
                 /\ Cardinality({ st \in {"Open", "Active", "Pending", "Complete"} :
                        \/ st = "Open" /\ IsFalse(prdFile[i].Passes)
                        \/ st = "Active" /\ IsActive(prdFile[i].Passes)
                        \/ st = "Pending" /\ IsPending(prdFile[i].Passes)
                        \/ st = "Complete" /\ IsTrue(prdFile[i].Passes) }) = 1
        /\ (\E i \in 1..Len(doc.prds) : doc.prds[i].passes \notin StatusValues)
               => loadErr

\* C28: in every store Load returned, and from then on, the ids of the records
\* are pairwise distinct, so a lookup by id has at most one candidate.
C28_IdsDistinct ==
    rpc \in {"query", "select", "save", "reload", "reloaded"} /\ ~loadErr =>
        /\ \A i, j \in 1..Len(prdFile) :
               i # j => prdFile[i].ID # prdFile[j].ID
        /\ \A id \in DocIDs : Cardinality(WithID(prdFile, id)) <= 1

\* `res` holds exactly the records of `prds` in the given state, in store order.
MatchingInOrder(res, prds, state) ==
    \E f \in [1..Len(res) -> 1..Len(prds)] :
        /\ \A a, b \in 1..Len(res) : a < b => f[a] < f[b]
        /\ \A k \in 1..Len(res) : res[k] = prds[f[k]]
        /\ { f[k] : k \in 1..Len(res) } = InState(prds, state)

\* C29: GetOpenPRDs, GetActivePRDs, GetPendingPRDs and GetCompletePRDs each
\* return exactly the records in the matching state, in store order;
\* FindByID(id) returns the one record with that id, and nil when no record
\* has it.
C29_QueriesExact ==
    rpc = "select" =>
        /\ MatchingInOrder(queried.open, prdFile, "Open")
        /\ MatchingInOrder(queried.active, prdFile, "Active")
        /\ MatchingInOrder(queried.pending, prdFile, "Pending")
        /\ MatchingInOrder(queried.complete, prdFile, "Complete")
        /\ queried.found = 0 <=> WithID(prdFile, queried.id) = {}
        /\ \A i \in 1..Len(prdFile) :
               WithID(prdFile, queried.id) = {i} => queried.found = i

C29_Witness ==
    /\ rpc = "select"
    /\ Len(prdFile) = 2
    /\ queried.id = "prd-2"
    /\ queried.found = 2
    /\ Len(queried.complete) = 1
    /\ Len(queried.open) = 1
    /\ queried.open[1].ID = "prd-2"

\* C30: for a file that loads, saving the loaded store and loading the result
\* gives the record set of the first load: the same records in the same order
\* with the same fields.
C30_RoundTrip ==
    rpc = "reloaded" => ~loadErr /\ prdFile = firstLoad

(***************************************************************************)
(* Recoverable files and the atomicity of Save.                            *)
(***************************************************************************)
\* C31: loading a file whose top level is a bare array of records succeeds,
\* gives those records, and the corrected document is saved back, so that the
\* file then has a top-level "prds" member.
C31_BareArrayRecovered ==
    prevDoc.shape = "array" /\ rpc \in {"query", "failed"} =>
        /\ ~loadErr
        /\ Len(prdFile) = Len(prevDoc.prds)
        /\ \A i \in 1..Len(prdFile) : prdFile[i].ID = prevDoc.prds[i].id
        /\ doc.shape = "object"

\* C32: loading an empty file succeeds and gives an empty record set.
C32_EmptyFileLoads ==
    prevDoc = EmptyFile /\ rpc \in {"query", "failed"} =>
        ~loadErr /\ prdFile = << >>

\* C33: when the process dies during Save, the file holds either the whole
\* document it held before or the whole new document.
C33_SaveNeverHalfWritten ==
    rpc = "crashed" => doc = prevDoc \/ doc = MarshalIndent(prdFile)

(***************************************************************************)
(* Cleanup of a phase invocation.                                          *)
(***************************************************************************)
\* C34: on every exit path of a phase invocation (end of the stream,
\* termination by signal or budget, launch error, read error) the execution
\* context has been cancelled and the stream handle, when one was opened, has
\* been closed by the time the invocation has returned.
C34_CleanupOnEveryExit ==
    pc = "done" =>
        /\ ctxCancelled
        /\ proc # "none" => readerClosed

\* A terminated invocation that has returned while lines were still unread.
C34_Witness ==
    /\ pc = "done"
    /\ ShouldTerminate(h)
    /\ consumed < emitted
    /\ readerClosed
    /\ ctxCancelled

(***************************************************************************)
(* Signals that change nothing.                                            *)
(***************************************************************************)
\* The signals that are only reported: by phase.
ReportOnly(phase) ==
    IF phase = "planner" THEN {SignalPlanSkipped, SignalBlocked}
    ELSE IF phase = "builder" THEN {SignalBailout}
    ELSE {SignalLoopRisk, SignalPlanUpdated}

\* The signal is in the phase result.
InReport(rep, sig) ==
    IF rep.phase = "reviewer"
    THEN IF sig.Type = SignalLoopRisk
         THEN \E k \in 1..Len(rep.LoopRisk) : rep.LoopRisk[k] = sig.PRDID
         ELSE \E k \in 1..Len(rep.PlanUpdated) : rep.PlanUpdated[k] = sig.PRDID
    ELSE /\ \E k \in 1..Len(rep.Signals) : rep.Signals[k] = sig
         /\ sig.Type = SignalPlanSkipped => rep.Skipped

\* The phase's agent was run: the planner and the builder have preconditions.
AgentRan ==
    /\ phaseResult.phase = "planner" => ShouldRunPlanner(prdFile)
    /\ phaseResult.phase = "builder" => Len(GetActivePRDs(prdFile)) > 0

\* C35: PLAN_SKIPPED and BLOCKED from the planner, BAILOUT from the builder,
\* LOOP_RISK and PLAN_UPDATED from the reviewer change no record's status,
\* neither in prd.json nor in the loaded store; they are reported in the
\* phase result.
C35_ReportOnlySignals ==
    [][ rpc = "process" /\ AgentRan =>
          \A k \in 1..Len(phaseResult.Signals) :
              phaseResult.Signals[k].Type \in ReportOnly(phaseResult.phase) =>
                  /\ rpc' = "processed"
                  /\ Len(disk') = Len(disk)
                  /\ \A i \in 1..Len(disk) : disk'[i].Passes = disk[i].Passes
                  /\ \A i \in 1..Len(prdFile) : prdFile'[i].Passes = prdFile[i].Passes
                  /\ InReport(report', phaseResult.Signals[k]) ]_vars

C35_Witness ==
    /\ rpc = "processed"
    /\ report.phase = "reviewer"
    /\ Len(phaseResult.Signals) = 2
    /\ phaseResult.Signals[1].Type = SignalLoopRisk
    /\ phaseResult.Signals[2].Type = SignalPlanUpdated
    /\ report.LoopRisk = << phaseResult.Signals[1].PRDID >>
    /\ report.PlanUpdated = << phaseResult.Signals[2].PRDID >>
    /\ disk = start

(***************************************************************************)
(* The token ceiling of a phase.                                           *)
(***************************************************************************)
\* C36: in every run that reaches the iteration loop, the token ceiling
\* handed to a phase's handler is a positive integer between 10000 and
\* 200000; no phase is started with a ceiling of 0 or outside that range.
C36_CeilingInRange ==
    rpc = "started" =>
        /\ ceiling.MaxTokens > 0
        /\ ceiling.MaxTokens >= 10000
        /\ ceiling.MaxTokens <= 200000

\* The builder is started with the ceiling its flag gave, over a file that
\* set another one.
C36_Witness ==
    /\ rpc = "started"
    /\ ceiling.phase = "builder"
    /\ cfgFile.present
    /\ cfgFile.cfg.Builder.MaxTokens = 50000
    /\ flags.builderTokens = 200000
    /\ ceiling.MaxTokens = 200000

(***************************************************************************)
(* Termination between events.                                             *)
(***************************************************************************)
\* The text segments of the content of a message event.
TextSegments(content) == SelectSeq(content, LAMBDA c : c.Type = "text")

\* The signals of the text segments, segment after segment.
RECURSIVE SignalsOfSegments(_)
SignalsOfSegments(segs) ==
    IF segs = << >> THEN << >>
    ELSE foundSignals(Head(segs).Text) \o SignalsOfSegments(Tail(segs))

\* The full-message events of the stream.
MessageEvents ==
    { line \in Lines :
        line.raw = "json" /\ line.Type = "assistant" /\ line.hasMessage }

\* C37: termination is evaluated between stream events only.  Whatever a
\* full-message event does to the handler (its usage reaching the ceiling, a
\* terminal signal in one of its text segments), every text segment of that
\* event is handed to the handler and scanned for signals before reading
\* stops.
C37_WholeEventHandled ==
    [][ pc = "parsing" /\ consumed' = consumed + 1 =>
        \A line \in MessageEvents :
          \* the step is the handling of `line': its usage first, then all of it
          /\ h'.tokenStats = OnEvent(h, [line EXCEPT !.content = << >>]).tokenStats
          /\ h' = LoopBody(h, line).h
          =>
          /\ Len(h'.output) = Len(h.output) + Len(TextSegments(line.content))
          /\ \A k \in 1..Len(TextSegments(line.content)) :
                 h'.output[Len(h.output) + k] = TextSegments(line.content)[k].Text
          /\ \E before \in {h.signals, Append(h.signals, BudgetBailout)} :
                 h'.signals = before \o SignalsOfSegments(TextSegments(line.content))
          /\ pc' = IF h'.shouldStop THEN "returned" ELSE "parsing" ]_vars

\* The first event of the stream reaches the ceiling with its usage and
\* carries a terminal signal in its first segment; the segment after it has
\* been scanned as well.
C37_Witness ==
    /\ pc = "returned"
    /\ consumed = 1
    /\ Len(h.output) = 2
    /\ Len(h.signals) = 3
    /\ h.signals[1] = BudgetBailout
    /\ h.signals[2].Type = SignalPRDComplete
    /\ h.signals[3].Type = SignalVerified


(***************************************************************************)
(* C38                                                                     *)
(***************************************************************************)
\* The events that carry one text: the text deltas and the result records.
TextEvents ==
    { line \in Lines :
        \/ line.Type = "result"
        \/ line.Type = "content_block_delta" /\ line.hasDelta
              /\ line.deltaType = "text_delta" }

C38_TwiceReached ==
    /\ consumed = 2
    /\ h.output = << Marker(SignalVerified, <<"a">>), Marker(SignalVerified, <<"a">>) >>
    /\ h.signals = << Signal(SignalVerified, "", "a"), Signal(SignalVerified, "", "a") >>

C39_CountsMatchQueries ==
    rpc = "select" =>
        \A types \in {{}, {SignalVerified}} :
            LET s == CaptureIterationState(prdFile, types)
            IN  /\ s.OpenCount + s.ActiveCount + s.PendingCount + s.CompleteCount
                       = Len(prdFile)
                /\ s.OpenCount = Len(queried.open)
                /\ s.ActiveCount = Len(queried.active)
                /\ s.PendingCount = Len(queried.pending)
                /\ s.CompleteCount = Len(queried.complete)
                /\ s.SignalTypes = types

====
